---- MODULE Spec2Model ----
(***************************************************************************)
(* A model of go-ipld-cbor: the canonical CBOR codec, the Node wrapper     *)
(* (Decode / DecodeBlock / WrapObject / FromJSON), path resolution         *)
(* (Resolve / ResolveLink), the path index (Tree) and the JSON bridge.     *)
(*                                                                         *)
(* Representation.                                                         *)
(*  - A Go string or []byte is a sequence of byte values (naturals), so    *)
(*    that prefix tests, splitting on "/" and integer parsing are the      *)
(*    string operations the code performs.                                 *)
(*  - A Go value of the object tree is a record                            *)
(*        [t |-> kind, n |-> number, s |-> bytes, kids |-> entries]        *)
(*    with kind in "null","bool","int","str","bytes","link","seq","map".   *)
(*    The entries of a "seq" are its elements in order (entry key <<>>);   *)
(*    a Go map is unordered, so the entries of a "map" are kept in one     *)
(*    fixed listing order (plain bytewise order of the keys), which is     *)
(*    NOT the canonical wire order.                                        *)
(*  - A cid.Cid is its binary form (go-cid keeps exactly that string);     *)
(*    cid.Undef is the empty sequence.                                     *)
(*  - Serialized CBOR is a sequence of bytes with real CBOR headers.       *)
(***************************************************************************)
EXTENDS Integers, Sequences, FiniteSets, TLC

VARIABLES
    call,   \* the last call made: its name and its arguments
    node,   \* what the last constructor returned: a Node or an error
    ret     \* what the last operation on that Node returned

VARIABLES
    bs,     \* the BasicIpldStore: its settings and the blocks of its blockstore
    last    \* the last call made on the store, with what it returned

VARIABLES
    gm,       \* what GetMany was called with and what it returned
    cursors,  \* the channel GetMany returned: the record being sent, closed or not
    worker,   \* the goroutine of GetMany: where it is and at which block
    outs,     \* the output slots handed to GetMany
    recvd,    \* the records the consumer has received, in order
    ctx       \* the context handed to GetMany: "live" or "cancelled"

VARIABLES
    idle,     \* a pool: which one it is and the instances waiting in its channel
    callers   \* the callers of a pooled operation: where each is, what it holds

VARIABLES
    atlasEntries,  \* the global list of rules
    cborAtlas,     \* the atlas built last, the active rule set
    pools,         \* marshaller, unmarshaller, cloner: the channels each has had
    reg            \* the calls of RegisterCborType made, with how each ended

codecVars == <<call, node, ret>>
storeVars == <<bs, last>>
manyVars == <<gm, cursors, worker, outs, recvd, ctx>>
poolVars == <<idle, callers>>
registryVars == <<atlasEntries, cborAtlas, pools, reg>>

vars == <<codecVars, storeVars, manyVars, poolVars, registryVars>>

\* what a call of the codec leaves alone
beyondCodec == <<storeVars, manyVars, poolVars, registryVars>>

----------------------------------------------------------------------------
(* Byte strings *)

Min2(a, b) == IF a < b THEN a ELSE b

\* strings.HasPrefix
HasPrefix(s, p) == Len(p) <= Len(s) /\ SubSeq(s, 1, Len(p)) = p

\* s[i:] for a 0-based Go index i
From(s, i) == SubSeq(s, i + 1, Len(s))

\* Go's string comparison (bytewise, a proper prefix sorts first)
LexLess(a, b) ==
    \E i \in 1..(Min2(Len(a), Len(b)) + 1) :
        /\ \A j \in 1..(i - 1) : a[j] = b[j]
        /\ \/ i > Len(a) /\ i <= Len(b)
           \/ i <= Len(a) /\ i <= Len(b) /\ a[i] < b[i]

\* atlas.KeySortMode_RFC7049: shorter keys first, then bytewise
cborSortingMode(a, b) ==
    \/ Len(a) < Len(b)
    \/ Len(a) = Len(b) /\ LexLess(a, b)

RECURSIVE Flatten(_)
Flatten(ss) == IF ss = <<>> THEN <<>> ELSE Head(ss) \o Flatten(Tail(ss))

----------------------------------------------------------------------------
(* The object tree *)

Val(t, num, str, kids) == [t |-> t, n |-> num, s |-> str, kids |-> kids]

NullV == Val("null", 0, <<>>, <<>>)
BoolV(b) == Val("bool", IF b THEN 1 ELSE 0, <<>>, <<>>)
IntV(i) == Val("int", i, <<>>, <<>>)
StrV(s) == Val("str", 0, s, <<>>)
BytesV(s) == Val("bytes", 0, s, <<>>)
\* a float64, held as its eight IEEE 754 bytes
FloatV(bits) == Val("float", 0, bits, <<>>)
\* a cid.Cid held in the tree
LinkV(c) == Val("link", 0, c, <<>>)
Entry(k, v) == [k |-> k, v |-> v]
\* []interface{}
SeqV(vs) == Val("seq", 0, <<>>, [i \in 1..Len(vs) |-> Entry(<<>>, vs[i])])
\* map[string]interface{}; es lists the entries in the listing order
MapV(es) == Val("map", 0, <<>>, es)

Keys(v) == {v.kids[i].k : i \in 1..Len(v.kids)}
HasKey(v, k) == \E i \in 1..Len(v.kids) : v.kids[i].k = k
\* curv[val]: with a key written twice the later write is the one kept
Lookup(v, k) ==
    v.kids[CHOOSE i \in 1..Len(v.kids) :
               v.kids[i].k = k /\ \A j \in (i + 1)..Len(v.kids) : v.kids[j].k # k].v

\* The entries that survive being written into a Go map one after another.
Dedup(es) ==
    LET keep == {i \in 1..Len(es) : \A j \in (i + 1)..Len(es) : es[j].k # es[i].k}
        pos(i) == Cardinality({j \in keep : j <= i})
    IN  [p \in 1..Cardinality(keep) |-> es[CHOOSE i \in keep : pos(i) = p]]

\* The listing order of a Go map's entries in this model (keys distinct).
ListingOrder(es) ==
    LET rank(i) == Cardinality({j \in 1..Len(es) : LexLess(es[j].k, es[i].k)}) + 1
    IN  [p \in 1..Len(es) |-> es[CHOOSE i \in 1..Len(es) : rank(i) = p]]

\* The order in which the encoder writes a map's entries (keys distinct).
WireOrder(es) ==
    LET rank(i) == Cardinality({j \in 1..Len(es) : cborSortingMode(es[j].k, es[i].k)}) + 1
    IN  [p \in 1..Len(es) |-> es[CHOOSE i \in 1..Len(es) : rank(i) = p]]

----------------------------------------------------------------------------
(* Identifiers and multihashes (go-cid, go-multihash) *)

CBORTagLink == 42

\* cid.DagCBOR
DagCBOR == 113
\* mh.SHA2_256 and mh.SHA2_512
SHA2_256 == 18
SHA2_512 == 19
BLAKE2B_MIN == 45569
\* the store's default: BLAKE2b-256
DefaultMultihash == BLAKE2B_MIN + 31
\* math.MaxUint64, the all-ones word, in its signed reading
MaxUint64 == 0 - 1

Undef == <<>>

Ok(v) == [err |-> "", v |-> v]
Fail(e) == [err |-> e, v |-> NullV]

\* cid.Cast accepts a version 1 identifier whose multihash length field is
\* the number of digest bytes that follow.
cidCast(x) ==
    IF Len(x) >= 4 /\ x[1] = 1 /\ x[4] = Len(x) - 4
    THEN [err |-> "", c |-> x]
    ELSE [err |-> "invalid cid", c |-> Undef]

\* mh.Sum: the digest function is taken collision free (the digest of the
\* data is the data); a negative length asks for the whole digest, a length
\* beyond the digest fails, a shorter one truncates.
mhSum(data, mhType, mhLen) ==
    IF mhType \notin {SHA2_256, SHA2_512, DefaultMultihash}
    THEN [err |-> "invalid multihash code", h |-> <<>>]
    ELSE LET l == IF mhLen < 0 THEN Len(data) ELSE mhLen
         IN  IF l > Len(data)
             THEN [err |-> "length greater than digest", h |-> <<>>]
             ELSE [err |-> "", h |-> <<mhType, l>> \o SubSeq(data, 1, l)]

NewCidV1(codec, h) == <<1, codec>> \o h

castCidToBytes(link) == <<0>> \o link

castBytesToCidKeepPrefix(x) ==
    IF Len(x) = 0 THEN [err |-> "link value was empty", c |-> Undef]
    ELSE IF x[1] # 0 THEN [err |-> "invalid multibase on IPLD link", c |-> Undef]
    ELSE [err |-> "", c |-> x]

castBytesToCid(x) ==
    IF Len(x) = 0 THEN [err |-> "link value was empty", c |-> Undef]
    ELSE IF x[1] # 0 THEN [err |-> "invalid multibase on IPLD link", c |-> Undef]
    ELSE LET r == cidCast(Tail(x))
         IN  IF r.err # "" THEN [err |-> "invalid IPLD link", c |-> Undef]
             ELSE [err |-> "", c |-> r.c]

----------------------------------------------------------------------------
(* The CBOR transcoder (refmt, used with cborAtlas) *)

\* The head of a data item: major type and argument; arguments below 24 sit
\* in the initial byte, arguments below 256 in one following byte.
ItemHead(major, arg) ==
    IF arg < 24 THEN <<major * 32 + arg>> ELSE <<major * 32 + 24, arg>>

RECURSIVE Marshal(_)
Marshal(v) ==
    CASE v.t = "null" -> <<246>>
      [] v.t = "bool" -> <<244 + v.n>>
      [] v.t = "int" -> IF v.n >= 0 THEN ItemHead(0, v.n) ELSE ItemHead(1, (0 - 1) - v.n)
      [] v.t = "float" -> <<251>> \o v.s
      [] v.t = "bytes" -> ItemHead(2, Len(v.s)) \o v.s
      [] v.t = "str" -> ItemHead(3, Len(v.s)) \o v.s
      [] v.t = "link" ->
            LET x == castCidToBytes(v.s)
            IN  ItemHead(6, CBORTagLink) \o ItemHead(2, Len(x)) \o x
      [] v.t = "seq" ->
            ItemHead(4, Len(v.kids))
                \o Flatten([i \in 1..Len(v.kids) |-> Marshal(v.kids[i].v)])
      [] v.t = "map" ->
            LET es == WireOrder(v.kids)
            IN  ItemHead(5, Len(es))
                    \o Flatten([i \in 1..Len(es) |->
                            ItemHead(3, Len(es[i].k)) \o es[i].k \o Marshal(es[i].v)])

\* The result of reading one data item of b starting at index i (1-based):
\* the value and the index after it, or an error.
DecOk(v, next) == [err |-> "", v |-> v, next |-> next]
DecFail(e) == [err |-> e, v |-> NullV, next |-> 0]
ListOk(es, next) == [err |-> "", es |-> es, next |-> next]
ListFail(e) == [err |-> e, es |-> <<>>, next |-> 0]

RECURSIVE Unmarshal(_, _)
RECURSIVE UnmarshalList(_, _, _, _)

\* count entries of an array (isMap = FALSE) or of a map (isMap = TRUE)
UnmarshalList(b, i, count, isMap) ==
    IF count = 0 THEN ListOk(<<>>, i)
    ELSE LET k == IF isMap THEN Unmarshal(b, i) ELSE DecOk(StrV(<<>>), i)
         IN  IF k.err # "" THEN ListFail(k.err)
             ELSE IF k.v.t # "str" THEN ListFail("map key was not a string")
             ELSE LET v == Unmarshal(b, k.next)
                  IN  IF v.err # "" THEN ListFail(v.err)
                      ELSE LET rest == UnmarshalList(b, v.next, count - 1, isMap)
                           IN  IF rest.err # "" THEN rest
                               ELSE ListOk(<<Entry(k.v.s, v.v)>> \o rest.es, rest.next)

Unmarshal(b, i) ==
    IF i > Len(b) THEN DecFail("unexpected EOF")
    ELSE
    LET major == b[i] \div 32
        info == b[i] % 32
        wide == info = 24
        arg == IF wide THEN b[i + 1] ELSE info
        body == IF wide THEN i + 2 ELSE i + 1
    IN  IF major = 7 THEN
            CASE info = 20 -> DecOk(BoolV(FALSE), i + 1)
              [] info = 21 -> DecOk(BoolV(TRUE), i + 1)
              [] info = 22 -> DecOk(NullV, i + 1)
              [] info = 27 ->
                    IF i + 8 > Len(b) THEN DecFail("unexpected EOF")
                    ELSE DecOk(FloatV(SubSeq(b, i + 1, i + 8)), i + 9)
              [] OTHER -> DecFail("unsupported simple value")
        ELSE IF info > 24 \/ (wide /\ i + 1 > Len(b)) THEN DecFail("unexpected EOF")
        ELSE
        CASE major = 0 -> DecOk(IntV(arg), body)
          [] major = 1 -> DecOk(IntV((0 - 1) - arg), body)
          [] major \in {2, 3} ->
                IF body + arg - 1 > Len(b) THEN DecFail("unexpected EOF")
                ELSE LET str == SubSeq(b, body, body + arg - 1)
                     IN  DecOk(IF major = 2 THEN BytesV(str) ELSE StrV(str), body + arg)
          [] major \in {4, 5} ->
                LET l == UnmarshalList(b, body, arg, major = 5)
                IN  IF l.err # "" THEN DecFail(l.err)
                    ELSE IF major = 4 THEN DecOk(Val("seq", 0, <<>>, l.es), l.next)
                    ELSE DecOk(MapV(ListingOrder(Dedup(l.es))), l.next)
          [] OTHER ->
                IF arg # CBORTagLink THEN DecFail("unhandled tag")
                ELSE LET x == Unmarshal(b, body)
                     IN  IF x.err # "" THEN x
                         ELSE IF x.v.t # "bytes" THEN DecFail("tagged link was not bytes")
                         ELSE LET c == castBytesToCid(x.v.s)
                              IN  IF c.err # "" THEN DecFail(c.err)
                                  ELSE DecOk(LinkV(c.c), x.next)

\* Decodes a cbor node into an object.
decodeCBOR(b) ==
    LET r == Unmarshal(b, 1)
    IN  IF r.err # "" THEN Fail("failed to unmarshal") ELSE Ok(r.v)

\* DumpObject marshals any object into its CBOR serialized byte representation
DumpObject(obj) == [err |-> "", out |-> Marshal(obj)]

----------------------------------------------------------------------------
(* Node: construction *)

Slash == 47

\* strconv.Itoa / fmt's %d for a non-negative int
RECURSIVE FormatInt(_)
FormatInt(i) ==
    IF i < 10 THEN <<48 + i>> ELSE FormatInt(i \div 10) \o <<48 + (i % 10)>>

Visit(name, val) == [name |-> name, val |-> val]

\* traverse calls cb(cur, obj) and then walks the entries of a map and the
\* elements of a slice; the result is the list of the calls of cb.
RECURSIVE traverse(_, _)
traverse(obj, cur) ==
    <<Visit(cur, obj)>> \o
    CASE obj.t = "map" ->
            Flatten([i \in 1..Len(obj.kids) |->
                traverse(obj.kids[i].v, cur \o <<Slash>> \o obj.kids[i].k)])
      [] obj.t = "seq" ->
            Flatten([i \in 1..Len(obj.kids) |->
                traverse(obj.kids[i].v, cur \o <<Slash>> \o FormatInt(i - 1))])
      [] OTHER -> <<>>

compTree(obj) ==
    LET vs == SelectSeq(traverse(obj, <<>>), LAMBDA c : c.name # <<>>)
    IN  [i \in 1..Len(vs) |-> Tail(vs[i].name)]

Link(c) == [Cid |-> c]

compLinks(obj) ==
    LET vs == SelectSeq(traverse(obj, <<>>), LAMBDA c : c.val.t = "link")
    IN  [i \in 1..Len(vs) |-> Link(vs[i].val.s)]

Node(obj, tree, links, raw, c) ==
    [obj |-> obj, tree |-> tree, links |-> links, raw |-> raw, cid |-> c]

NilNode == Node(NullV, <<>>, <<>>, <<>>, Undef)

NodeOk(nd) == [err |-> "", node |-> nd]
NodeFail(e) == [err |-> e, node |-> NilNode]

Block(raw, c) == [raw |-> raw, cid |-> c]

decodeBlockCanonicalizing(block) ==
    LET m == decodeCBOR(block.raw)
    IN  IF m.err # "" THEN NodeFail(m.err)
        ELSE NodeOk(Node(m.v, compTree(m.v), compLinks(m.v), Marshal(m.v), block.cid))

decodeBlock(block) ==
    LET m == decodeCBOR(block.raw)
    IN  IF m.err # "" THEN NodeFail(m.err)
        ELSE NodeOk(Node(m.v, compTree(m.v), compLinks(m.v), block.raw, block.cid))

DecodeBlock(block) == decodeBlock(block)

\* a WrapObject that always hashes with SHA2-256, whatever mhType asks for
WrapObjectDefaultHash(m, mhType, mhLen) ==
    LET data == DumpObject(m)
        hash == mhSum(data.out, SHA2_256, mhLen)
    IN  IF data.err # "" THEN NodeFail(data.err)
        ELSE IF hash.err # "" THEN NodeFail(hash.err)
        ELSE decodeBlock(Block(data.out, NewCidV1(DagCBOR, hash.h)))

\* WrapObject marshals m, derives the identifier of the marshalled bytes and
\* decodes them again; an mhType of math.MaxUint64 selects SHA2-256.
WrapObject(m, mhType, mhLen) ==
    LET data == DumpObject(m)
        ty == IF mhType = MaxUint64 THEN SHA2_256 ELSE mhType
        hash == mhSum(data.out, ty, mhLen)
    IN  IF data.err # "" THEN NodeFail(data.err)
        ELSE IF hash.err # "" THEN NodeFail(hash.err)
        ELSE decodeBlock(Block(data.out, NewCidV1(DagCBOR, hash.h)))

\* a Decode that names the node after the bytes it was given
DecodeHashingInput(b, mhType, mhLen) ==
    LET m == decodeCBOR(b)
        nd == WrapObject(m.v, mhType, mhLen)
        ty == IF mhType = MaxUint64 THEN SHA2_256 ELSE mhType
    IN  IF m.err # "" THEN NodeFail(m.err)
        ELSE IF nd.err # "" THEN nd
        ELSE NodeOk([nd.node EXCEPT !.cid = NewCidV1(DagCBOR, mhSum(b, ty, mhLen).h)])

\* Decode decodes the bytes into a value and wraps that value.
Decode(b, mhType, mhLen) ==
    LET m == decodeCBOR(b)
    IN  IF m.err # "" THEN NodeFail(m.err) ELSE WrapObject(m.v, mhType, mhLen)

----------------------------------------------------------------------------
(* The JSON bridge *)

\* map[interface{}]interface{} is the kind "imap"; the decoder never builds
\* one (it builds map[string]interface{}), so toSaneMap is reached only for
\* values a caller made by hand.
RECURSIVE convertToJSONIsh(_)
RECURSIVE JSONIshList(_)

\* the elements of a slice, each converted; the first error wins
JSONIshList(es) ==
    IF es = <<>> THEN [err |-> "", es |-> <<>>]
    ELSE LET h == convertToJSONIsh(es[1].v)
         IN  IF h.err # "" THEN [err |-> h.err, es |-> <<>>]
             ELSE LET r == JSONIshList(Tail(es))
                  IN  IF r.err # "" THEN r
                      ELSE [err |-> "", es |-> <<Entry(es[1].k, h.v)>> \o r.es]

toSaneMap(v) ==
    IF HasKey(v, <<Slash>>) /\ Len(v.kids) = 1
    THEN LET lnk == Lookup(v, <<Slash>>)
         IN  IF lnk.t # "bytes" THEN Fail("link value should have been bytes")
             ELSE LET c == cidCast(lnk.s)
                  IN  IF c.err # "" THEN Fail(c.err)
                      ELSE Ok(MapV(<<Entry(<<Slash>>, LinkV(c.c))>>))
    ELSE LET r == JSONIshList(v.kids)
         IN  IF r.err # "" THEN Fail(r.err) ELSE Ok(MapV(r.es))

convertToJSONIsh(v) ==
    CASE v.t = "imap" -> toSaneMap(v)
      [] v.t = "seq" ->
            IF Len(v.kids) = 0 THEN Ok(Val("seq", 0, <<>>, <<>>))
            ELSE LET r == JSONIshList(v.kids)
                 IN  IF r.err # "" THEN Fail(r.err) ELSE Ok(Val("seq", 0, <<>>, r.es))
      [] OTHER -> Ok(v)

\* cid.Cid.String and cid.Decode: the text form is the multibase letter b
\* followed by the encoded binary form.
cidString(c) == <<98>> \o c

cidDecode(str) ==
    IF Len(str) < 2 THEN [err |-> "cid too short", c |-> Undef]
    ELSE IF str[1] # 98 THEN [err |-> "unsupported multibase", c |-> Undef]
    ELSE cidCast(Tail(str))

\* json.Marshal of a converted value, as the JSON value it writes: a cid.Cid
\* writes {"/": "<cid string>"} (its own MarshalJSON), a map writes an
\* object, a slice an array.
RECURSIVE jsonMarshal(_)
jsonMarshal(v) ==
    CASE v.t = "link" -> MapV(<<Entry(<<Slash>>, StrV(cidString(v.s)))>>)
      [] v.t \in {"map", "seq"} ->
            Val(v.t, 0, <<>>,
                [i \in 1..Len(v.kids) |-> Entry(v.kids[i].k, jsonMarshal(v.kids[i].v))])
      [] OTHER -> v

\* MarshalJSON converts the Node into its JSON representation.
MarshalJSON(nd) ==
    LET out == convertToJSONIsh(nd.obj)
    IN  IF out.err # "" THEN Fail(out.err) ELSE Ok(jsonMarshal(out.v))

RECURSIVE convertToCborIshObj(_)
RECURSIVE CborIshList(_)

CborIshList(es) ==
    IF es = <<>> THEN [err |-> "", es |-> <<>>]
    ELSE LET h == convertToCborIshObj(es[1].v)
         IN  IF h.err # "" THEN [err |-> h.err, es |-> <<>>]
             ELSE LET r == CborIshList(Tail(es))
                  IN  IF r.err # "" THEN r
                      ELSE [err |-> "", es |-> <<Entry(es[1].k, h.v)>> \o r.es]

\* a conversion that takes every map holding "/" for a link, whatever its size
convertToCborIshObjAnySize(i) ==
    CASE i.t = "map" ->
            IF Len(i.kids) = 0 THEN Ok(i)
            ELSE IF HasKey(i, <<Slash>>)
            THEN LET lnk == Lookup(i, <<Slash>>)
                 IN  IF lnk.t # "str" THEN Fail("link should have been a string")
                     ELSE LET c == cidDecode(lnk.s)
                          IN  IF c.err # "" THEN Fail(c.err) ELSE Ok(LinkV(c.c))
            ELSE Ok(i)
      [] i.t = "seq" ->
            IF Len(i.kids) = 0 THEN Ok(i)
            ELSE LET r == CborIshList(i.kids)
                 IN  IF r.err # "" THEN Fail(r.err) ELSE Ok(Val("seq", 0, <<>>, r.es))
      [] OTHER -> Ok(i)

convertToCborIshObj(i) ==
    CASE i.t = "map" ->
            IF Len(i.kids) = 0 THEN Ok(i)
            ELSE IF HasKey(i, <<Slash>>) /\ Len(i.kids) = 1
            THEN LET lnk == Lookup(i, <<Slash>>)
                 IN  IF lnk.t # "str" THEN Fail("link should have been a string")
                     ELSE LET c == cidDecode(lnk.s)
                          IN  IF c.err # "" THEN Fail(c.err) ELSE Ok(LinkV(c.c))
            ELSE Ok(i)
      [] i.t = "seq" ->
            IF Len(i.kids) = 0 THEN Ok(i)
            ELSE LET r == CborIshList(i.kids)
                 IN  IF r.err # "" THEN Fail(r.err) ELSE Ok(Val("seq", 0, <<>>, r.es))
      [] OTHER -> Ok(i)

\* FromJSON converts incoming JSON into a Node; m is the decoded JSON value.
FromJSON(m, mhType, mhLen) ==
    LET obj == convertToCborIshObj(m)
    IN  IF obj.err # "" THEN NodeFail(obj.err) ELSE WrapObject(obj.v, mhType, mhLen)

----------------------------------------------------------------------------
(* Node: path resolution *)

IsDigit(c) == c >= 48 /\ c <= 57

RECURSIVE DigitsValue(_)
DigitsValue(ds) ==
    IF ds = <<>> THEN 0
    ELSE DigitsValue(SubSeq(ds, 1, Len(ds) - 1)) * 10 + (ds[Len(ds)] - 48)

\* strconv.Atoi: an optional sign and then one or more decimal digits
Atoi(str) ==
    LET signed == Len(str) > 0 /\ str[1] \in {43, 45}
        ds == IF signed THEN Tail(str) ELSE str
    IN  IF ds = <<>> \/ \E i \in 1..Len(ds) : ~IsDigit(ds[i])
        THEN [err |-> "invalid syntax", i |-> 0]
        ELSE [err |-> "",
              i |-> IF signed /\ str[1] = 45 THEN 0 - DigitsValue(ds) ELSE DigitsValue(ds)]

ErrNoSuchLink == "no such link found"

\* What Resolve returns: the value (kind "nil" for a nil interface, "link"
\* for a *node.Link, "obj" for anything else), the rest of the path (nil and
\* empty are both <<>>) and the error ("" for nil).
Resolved(kind, val, rest) == [kind |-> kind, val |-> val, rest |-> rest, err |-> ""]
\* a failure that is not reported: nil value, nil rest and nil error
ResolveFailSilently(e) == [kind |-> "nil", val |-> NullV, rest |-> <<>>, err |-> ""]

ResolveFail(e) == [kind |-> "nil", val |-> NullV, rest |-> <<>>, err |-> e]

\* path[i:], the segments the loop has not consumed before iteration i
UnconsumedOffByOne(path, i) == From(path, i + 1)

Unconsumed(path, i) == From(path, i)

\* The loop of Resolve from its iteration i on (i segments consumed).
RECURSIVE ResolveLoop(_, _, _)
ResolveLoop(cur, path, i) ==
    IF i = Len(path)
    THEN IF cur.t = "link" THEN Resolved("link", cur, <<>>)
         ELSE LET jsonish == convertToJSONIsh(cur)
              IN  IF jsonish.err # "" THEN ResolveFail(jsonish.err)
                  ELSE Resolved("obj", jsonish.v, <<>>)
    ELSE
    LET val == path[i + 1]
    IN  CASE cur.t \in {"map", "imap"} ->
                IF ~HasKey(cur, val) THEN ResolveFail(ErrNoSuchLink)
                ELSE ResolveLoop(Lookup(cur, val), path, i + 1)
          [] cur.t = "seq" ->
                LET a == Atoi(val)
                IN  IF a.err # "" THEN ResolveFail(a.err)
                    ELSE IF a.i < 0 \/ a.i >= Len(cur.kids)
                    THEN ResolveFail("array index out of range")
                    ELSE ResolveLoop(cur.kids[a.i + 1].v, path, i + 1)
          [] cur.t = "link" -> Resolved("link", cur, Unconsumed(path, i))
          [] OTHER -> ResolveFail("tried to resolve through object that had no links")

Resolve(nd, path) == ResolveLoop(nd.obj, path, 0)

\* ResolveLink: on a non-link the link is nil and rest is passed through.
ResolveLink(nd, path) ==
    LET r == Resolve(nd, path)
    IN  IF r.err # "" THEN ResolveFail(r.err)
        ELSE IF r.kind # "link"
        THEN [kind |-> "nil", val |-> NullV, rest |-> r.rest,
              err |-> "found non-link at given path"]
        ELSE r

----------------------------------------------------------------------------
(* Node: the path index *)

\* strings.TrimLeft(s, "/")
RECURSIVE TrimLeftSlash(_)
TrimLeftSlash(str) ==
    IF str # <<>> /\ str[1] = Slash THEN TrimLeftSlash(Tail(str)) ELSE str

\* strings.Split(s, "/")
RECURSIVE SplitSlash(_)
SplitSlash(str) ==
    IF \A i \in 1..Len(str) : str[i] # Slash THEN <<str>>
    ELSE LET i == CHOOSE j \in 1..Len(str) :
                      str[j] = Slash /\ \A h \in 1..(j - 1) : str[h] # Slash
         IN  <<SubSeq(str, 1, i - 1)>> \o SplitSlash(From(str, i))

\* The loop of Tree over the recorded paths ts.
RECURSIVE TreeLoop(_, _, _)
TreeLoop(ts, path, depth) ==
    IF ts = <<>> THEN <<>>
    ELSE
    LET t == ts[1]
        rest == TreeLoop(Tail(ts), path, depth)
        sub == TrimLeftSlash(From(t, Len(path)))
    IN  IF ~HasPrefix(t, path) THEN rest
        ELSE IF sub = <<>> THEN rest
        ELSE IF depth < 0 THEN <<sub>> \o rest
        ELSE IF Len(SplitSlash(sub)) <= depth THEN <<sub>> \o rest
        ELSE rest

\* Tree returns a flattend array of paths at the given path for the given depth.
Tree(nd, path, depth) ==
    IF path = <<>> /\ depth = 0 - 1 THEN nd.tree ELSE TreeLoop(nd.tree, path, depth)

Links(nd) == nd.links

----------------------------------------------------------------------------
(* The inputs *)

MaxWidth == 2
MaxDepth == 2

\* the keys "/", "a", "ab", "b"
KeyPool == {<<Slash>>, <<97>>, <<97, 98>>, <<98>>}
\* the key a map that wraps another container is given: "a"
WrapKeys == {<<97>>}

\* two identifiers of other objects
X1 == <<1, 85, SHA2_256, 1, 7>>
X2 == <<1, 85, SHA2_256, 1, 8>>

Scalars == {IntV(1), LinkV(X1), LinkV(X2)}

\* the keys of S, in the listing order
KeySeq(S) ==
    CHOOSE ks \in [1..Cardinality(S) -> S] :
        \A i, j \in 1..Cardinality(S) : i < j => LexLess(ks[i], ks[j])

\* every map and every slice of at most w entries drawn from C
Containers(C, w) ==
    UNION {{MapV([i \in 1..Cardinality(S) |-> Entry(KeySeq(S)[i], f[i])]) :
               f \in [1..Cardinality(S) -> C]} :
           S \in {T \in SUBSET KeyPool : Cardinality(T) <= w}}
    \cup UNION {{SeqV(f) : f \in [1..l -> C]} : l \in 0..w}

\* containers of the scalars C, wrapped in up to d - 1 single-entry containers
RECURSIVE Nested(_, _)
Nested(C, d) ==
    IF d <= 1 THEN Containers(C, MaxWidth)
    ELSE LET inner == Nested(C, d - 1)
         IN  inner \cup {MapV(<<Entry(k, c)>>) : k \in WrapKeys, c \in inner}
                   \cup {SeqV(<<c>>) : c \in inner}

\* The Go values handed to WrapObject; the last three hold an undefined link.
Objects ==
    Scalars \cup Nested(Scalars, MaxDepth)
        \cup {LinkV(Undef), SeqV(<<LinkV(Undef)>>), MapV(<<Entry(<<97>>, LinkV(Undef))>>)}

\* Every serialization of v with the entries of its maps in any order.
RECURSIVE Wire(_)
RECURSIVE WireList(_, _)

\* the serializations of the entries es, a map's entries preceded by their key
WireList(es, isMap) ==
    IF es = <<>> THEN {<<>>}
    ELSE {(IF isMap THEN ItemHead(3, Len(es[1].k)) \o es[1].k ELSE <<>>) \o h \o t :
              h \in Wire(es[1].v), t \in WireList(Tail(es), isMap)}

Wire(v) ==
    CASE v.t = "seq" -> {ItemHead(4, Len(v.kids)) \o l : l \in WireList(v.kids, FALSE)}
      [] v.t = "map" ->
            LET l == Len(v.kids)
                perms == {p \in [1..l -> 1..l] : \A i, j \in 1..l : p[i] = p[j] => i = j}
            IN  UNION {{ItemHead(5, l) \o e :
                           e \in WireList([i \in 1..l |-> v.kids[p[i]]], TRUE)} :
                       p \in perms}
      [] OTHER -> {Marshal(v)}

\* Byte strings no decoder accepts: a cut-off item, a map keyed by an
\* integer, links whose payload is empty, has a multibase byte other than 0,
\* or is not a byte string.
Malformed ==
    {SubSeq(b, 1, Len(b) - 1) : b \in {Marshal(m) : m \in Containers(Scalars, 1)}}
        \cup {<<161, 1, 1>>, <<216, 42, 64>>, <<216, 42, 1>>,
               <<216, 42, 70, 1>> \o X1, <<216, 42, 69, 0, 1, 85, SHA2_256, 1>>}

\* Serializations that write the integer 1 with a one-byte argument, which
\* a canonical writer never does: 1, [1], {"a": 1}, {"b": 1, "ab": 1}.
NonMinimal ==
    {<<24, 1>>, <<129, 24, 1>>, <<161, 97, 97, 24, 1>>,
     <<162, 97, 98, 24, 1, 98, 97, 98, 1>>, <<162, 98, 97, 98, 1, 97, 98, 24, 1>>}

\* The byte strings handed to Decode and DecodeBlock.
WireInputs ==
    UNION {Wire(m) : m \in Scalars \cup Nested(Scalars, MaxDepth)}
        \cup NonMinimal \cup Malformed

\* the float64 1, which is what encoding/json makes of the JSON number 1
One == FloatV(<<63, 240, 0, 0, 0, 0, 0, 0>>)

\* JSON scalars: a number, the text of an identifier, a text that is none
JSONScalars == {One, StrV(cidString(X1)), StrV(<<122, 122>>)}

\* The decoded JSON values handed to FromJSON.
JSONValues == JSONScalars \cup Nested(JSONScalars, MaxDepth)

\* map[interface{}]interface{}, which only a caller can build by hand
IMapV(es) == Val("imap", 0, <<>>, es)

\* Hand-made values given to convertToJSONIsh: a lone "/" holding identifier
\* bytes, "/" beside another key, an empty map, an empty slice, a lone "/"
\* holding no bytes or no identifier, and slices and maps of these.
HandMade ==
    LET base == {IMapV(<<Entry(<<Slash>>, BytesV(X1))>>),
                 IMapV(<<Entry(<<Slash>>, BytesV(X1)), Entry(<<97>>, IntV(1))>>),
                 IMapV(<<>>), SeqV(<<>>), IntV(1),
                 IMapV(<<Entry(<<Slash>>, IntV(1))>>),
                 IMapV(<<Entry(<<Slash>>, BytesV(<<9>>))>>)}
    IN  base \cup {SeqV(<<v>>) : v \in base}
             \cup {IMapV(<<Entry(<<97>>, v)>>) : v \in base}
             \cup {SeqV(<<v, w>>) : v, w \in base}

\* hash function and length: the default, the sentinel that stands for the
\* default, another function with a truncated digest, an unknown function
HashParams ==
    {<<SHA2_256, 0 - 1>>, <<MaxUint64, 0 - 1>>, <<SHA2_512, 1>>, <<0, 0 - 1>>}

\* The blocks handed to DecodeBlock: bytes under the identifier of those
\* bytes, and the same bytes under an identifier that is not theirs.
Blocks ==
    {Block(b, NewCidV1(DagCBOR, mhSum(b, SHA2_256, 0 - 1).h)) : b \in WireInputs}
        \cup {Block(b, X1) : b \in WireInputs}

----------------------------------------------------------------------------
(* The codec as a state machine: one constructor call, then one operation *)
(* on the Node it returned.                                               *)

Call(op, in, mhType, mhLen) == [op |-> op, in |-> in, mhType |-> mhType, mhLen |-> mhLen]

NoCall == Call("none", <<>>, 0, 0)
NoRet == [op |-> "none"]

\* no call of the codec made
CodecAtRest ==
    /\ call = NoCall
    /\ node = NodeFail("no node")
    /\ ret = NoRet

\* no store made
StoreAtRest ==
    /\ bs = [viewer |-> FALSE, mh |-> 0, data |-> {}, batches |-> <<>>]
    /\ last = NoRet

\* no GetMany under way
ManyAtRest ==
    /\ gm = NoRet
    /\ cursors = [sending |-> <<>>, closed |-> FALSE]
    /\ worker = [pc |-> "none", i |-> 0]
    /\ outs = <<>>
    /\ recvd = <<>>
    /\ ctx = "live"

\* no pool made
PoolAtRest ==
    /\ idle = [pool |-> "none", chan |-> <<>>]
    /\ callers = <<>>

\* the registry left out of account
RegistryAtRest ==
    /\ atlasEntries = <<>>
    /\ cborAtlas = <<>>
    /\ pools = <<>>
    /\ reg = <<>>

Init ==
    /\ CodecAtRest
    /\ StoreAtRest
    /\ ManyAtRest
    /\ PoolAtRest
    /\ RegistryAtRest

DecodeAct ==
    /\ call.op = "none"
    /\ UNCHANGED beyondCodec
    /\ \E b \in WireInputs, hp \in HashParams :
        /\ call' = Call("Decode", b, hp[1], hp[2])
        /\ node' = Decode(b, hp[1], hp[2])
        /\ UNCHANGED ret

DecodeBlockAct ==
    /\ call.op = "none"
    /\ UNCHANGED beyondCodec
    /\ \E blk \in Blocks :
        /\ call' = Call("DecodeBlock", blk, 0, 0)
        /\ node' = DecodeBlock(blk)
        /\ UNCHANGED ret

WrapObjectAct ==
    /\ call.op = "none"
    /\ UNCHANGED beyondCodec
    /\ \E m \in Objects, hp \in HashParams :
        /\ call' = Call("WrapObject", m, hp[1], hp[2])
        /\ node' = WrapObject(m, hp[1], hp[2])
        /\ UNCHANGED ret

FromJSONAct ==
    /\ call.op = "none"
    /\ UNCHANGED beyondCodec
    /\ \E j \in JSONValues, hp \in HashParams :
        /\ call' = Call("FromJSON", j, hp[1], hp[2])
        /\ node' = FromJSON(j, hp[1], hp[2])
        /\ UNCHANGED ret

\* Decode(nd.RawData(), mhType, mhLen) on the Node that Decode returned
RedecodeAct ==
    /\ call.op = "Decode"
    /\ UNCHANGED beyondCodec
    /\ node.err = ""
    /\ ret.op = "none"
    /\ ret' = [op |-> "Decode", r |-> Decode(node.node.raw, call.mhType, call.mhLen)]
    /\ UNCHANGED <<call, node>>

\* WrapObject(nd's object tree, mhType, mhLen) on the Node a constructor returned
RewrapAct ==
    /\ call.op \in {"Decode", "WrapObject", "FromJSON"}
    /\ UNCHANGED beyondCodec
    /\ node.err = ""
    /\ ret.op = "none"
    /\ ret' = [op |-> "WrapObject",
               r |-> WrapObject(node.node.obj, call.mhType, call.mhLen)]
    /\ UNCHANGED <<call, node>>

\* convertToJSONIsh(v) on a hand-made value
ConvertToJSONIshAct ==
    /\ call.op = "none"
    /\ UNCHANGED beyondCodec
    /\ \E v \in HandMade :
        /\ call' = Call("convertToJSONIsh", v, 0, 0)
        /\ ret' = [op |-> "convertToJSONIsh", r |-> convertToJSONIsh(v)]
        /\ UNCHANGED node

\* nd.MarshalJSON()
MarshalJSONAct ==
    /\ call.op \in {"WrapObject", "FromJSON"}
    /\ UNCHANGED beyondCodec
    /\ node.err = ""
    /\ ret.op = "none"
    /\ ret' = [op |-> "MarshalJSON", r |-> MarshalJSON(node.node)]
    /\ UNCHANGED <<call, node>>

NextCodec ==
    \/ DecodeAct
    \/ DecodeBlockAct
    \/ WrapObjectAct
    \/ FromJSONAct
    \/ RedecodeAct
    \/ RewrapAct
    \/ MarshalJSONAct
    \/ ConvertToJSONIshAct

SpecCodec == Init /\ [][NextCodec]_vars

----------------------------------------------------------------------------
(* Paths into a Node: an object is wrapped, the RawData of its Node is *)
(* decoded, and the decoded Node is asked one question.                *)

\* the sequences of keys and indices that lead from v to a value inside it,
\* the empty one (v itself) included
RECURSIVE Walks(_)
Walks(v) ==
    {<<>>} \cup
    CASE v.t \in {"map", "imap"} ->
            UNION {{<<v.kids[i].k>> \o w : w \in Walks(v.kids[i].v)} : i \in 1..Len(v.kids)}
      [] v.t = "seq" ->
            UNION {{<<FormatInt(i - 1)>> \o w : w \in Walks(v.kids[i].v)} :
                       i \in 1..Len(v.kids)}
      [] OTHER -> {}

\* what a path goes on with after a walk: nothing, "z", "+0", "-1", "9",
\* "z" and then "a"
Tails == {<<>>, <<<<122>>>>, <<<<43, 48>>>>, <<<<45, 49>>>>, <<<<57>>>>, <<<<122>>, <<97>>>>}

\* the paths asked of the Node of object m
Paths(m) == {w \o t : w \in Walks(m), t \in Tails}

\* the prefixes asked of Tree: "", "a", "ab", "a/a", "0"
Prefixes == {<<>>, <<97>>, <<97, 98>>, <<97, Slash, 97>>, <<48>>}

\* the depths asked of Tree
Depths == {0 - 2, 0 - 1, 0, 1, 2}

Query(op, path, depth, r) == [op |-> op, path |-> path, depth |-> depth, r |-> r]

\* WrapObject(m, SHA2_256, -1)
WrapAct ==
    /\ call.op = "none"
    /\ UNCHANGED beyondCodec
    /\ \E m \in Objects :
        /\ call' = Call("WrapObject", m, SHA2_256, 0 - 1)
        /\ node' = WrapObject(m, SHA2_256, 0 - 1)
        /\ UNCHANGED ret

\* Decode(nd.RawData(), mhType, mhLen), whose Node takes the place of nd
DecodeRawDataAct ==
    /\ call.op = "WrapObject"
    /\ UNCHANGED beyondCodec
    /\ node.err = ""
    /\ call' = [call EXCEPT !.op = "WrapObject;Decode"]
    /\ node' = Decode(node.node.raw, call.mhType, call.mhLen)
    /\ UNCHANGED ret

\* nd.Resolve(path)
ResolveAct ==
    /\ call.op = "WrapObject;Decode"
    /\ UNCHANGED beyondCodec
    /\ node.err = ""
    /\ ret.op = "none"
    /\ \E path \in Paths(call.in) :
        ret' = Query("Resolve", path, 0, Resolve(node.node, path))
    /\ UNCHANGED <<call, node>>

\* nd.ResolveLink(path)
ResolveLinkAct ==
    /\ call.op = "WrapObject;Decode"
    /\ UNCHANGED beyondCodec
    /\ node.err = ""
    /\ ret.op = "none"
    /\ \E path \in Paths(call.in) :
        ret' = Query("ResolveLink", path, 0, ResolveLink(node.node, path))
    /\ UNCHANGED <<call, node>>

\* nd.Tree(path, depth)
TreeAct ==
    /\ call.op = "WrapObject;Decode"
    /\ UNCHANGED beyondCodec
    /\ node.err = ""
    /\ ret.op = "none"
    /\ \E path \in Prefixes, depth \in Depths :
        ret' = Query("Tree", path, depth, Tree(node.node, path, depth))
    /\ UNCHANGED <<call, node>>

NextPath ==
    \/ WrapAct
    \/ DecodeRawDataAct
    \/ ResolveAct
    \/ ResolveLinkAct
    \/ TreeAct

SpecPath == Init /\ [][NextPath]_vars

----------------------------------------------------------------------------
(* Properties of the codec *)

Constructors == {"Decode", "WrapObject", "FromJSON"}

\* the hash function WrapObject uses when asked for mhType
EffectiveHash(mhType) == IF mhType = MaxUint64 THEN SHA2_256 ELSE mhType

\* C1: Canonicalization is idempotent: decoding the RawData of a Node that
\* Decode returned succeeds and gives a Node with the same RawData and the
\* same Cid, also when the bytes first decoded were not canonical.
C1_DecodeIdempotent ==
    ret.op = "Decode" =>
        /\ ret.r.err = ""
        /\ ret.r.node.raw = node.node.raw
        /\ ret.r.node.cid = node.node.cid

\* Decode was given a two-entry map with its keys in non-canonical order and
\* its RawData has been decoded again.
C1_Witness ==
    /\ ret.op = "Decode"
    /\ call.in # node.node.raw
    /\ node.node.obj.t = "map"
    /\ Len(node.node.obj.kids) = 2

\* C2: Every Node of WrapObject, Decode or FromJSON has RawData equal to the
\* canonical encoding of its value and Cid equal to CIDv1(dag-cbor,
\* multihash(RawData, mhType, mhLen)), where an mhType of math.MaxUint64 stands
\* for SHA2-256; the Cid of Decode(b) is that of the canonical bytes and, b
\* being non-canonical and the digest not truncated, not that of b; and
\* wrapping the Node's value again gives the same Cid.
C2_CidOfCanonicalBytes ==
    /\ (call.op \in Constructors /\ node.err = "") =>
            LET h == mhSum(node.node.raw, EffectiveHash(call.mhType), call.mhLen)
            IN  /\ node.node.raw = Marshal(node.node.obj)
                /\ h.err = ""
                /\ node.node.cid = <<1, DagCBOR>> \o h.h
    /\ (call.op = "Decode" /\ node.err = "" /\ call.in # node.node.raw /\ call.mhLen < 0) =>
            node.node.cid #
                <<1, DagCBOR>> \o mhSum(call.in, EffectiveHash(call.mhType), call.mhLen).h
    /\ ret.op = "WrapObject" =>
            /\ ret.r.err = ""
            /\ ret.r.node.cid = node.node.cid
            /\ ret.r.node.raw = node.node.raw

\* Decode was given non-canonical bytes with another hash function and a
\* one-byte digest, and the value of its Node has been wrapped again.
C2_Witness ==
    /\ call.op = "Decode"
    /\ call.mhType = SHA2_512
    /\ call.in # node.node.raw
    /\ ret.op = "WrapObject"
    /\ ret.r.err = ""

\* C2 as it is worded: the Cid is CIDv1(dag-cbor, multihash(RawData, mhType,
\* mhLen)) for the very mhType the constructor was called with.
C2_LiteralHashType ==
    (call.op \in Constructors /\ node.err = "") =>
        LET h == mhSum(node.node.raw, call.mhType, call.mhLen)
        IN  h.err = "" /\ node.node.cid = <<1, DagCBOR>> \o h.h

\* C3: For every block whose bytes decode, DecodeBlock returns a Node with the
\* block's Cid and the block's bytes unchanged: nothing is re-encoded and the
\* Cid is not checked against the bytes.
C3_DecodeBlockKeepsBlock ==
    (call.op = "DecodeBlock" /\ node.err = "") =>
        /\ node.node.cid = call.in.cid
        /\ node.node.raw = call.in.raw
        /\ decodeCBOR(call.in.raw).err = ""

\* DecodeBlock accepted a block of non-canonical bytes under an identifier
\* that is not the hash of those bytes.
C3_Witness ==
    /\ call.op = "DecodeBlock"
    /\ node.err = ""
    /\ call.in.raw # Marshal(node.node.obj)
    /\ call.in.cid = X1
    /\ call.in.cid # <<1, DagCBOR>> \o mhSum(call.in.raw, SHA2_256, 0 - 1).h

\* a JSON object of exactly one entry, keyed "/", with a string value that
\* is the text of an identifier
IsRefShape(j) ==
    /\ j.t = "map"
    /\ Len(j.kids) = 1
    /\ j.kids[1].k = <<Slash>>
    /\ j.kids[1].v.t = "str"
    /\ cidDecode(j.kids[1].v.s).err = ""

\* the object tree o holds a Reference wherever the JSON value j holds an
\* object of that shape
RECURSIVE RefsParsed(_, _)
RefsParsed(j, o) ==
    IF IsRefShape(j) THEN o.t = "link" /\ o.s = cidDecode(j.kids[1].v.s).c
    ELSE IF j.t \in {"map", "seq"}
    THEN /\ o.t = j.t
         /\ Len(o.kids) = Len(j.kids)
         /\ \A i \in 1..Len(j.kids) : RefsParsed(j.kids[i].v, o.kids[i].v)
    ELSE TRUE

\* the identifiers named by the objects of that shape in j
RECURSIVE JSONRefs(_)
JSONRefs(j) ==
    IF IsRefShape(j) THEN {cidDecode(j.kids[1].v.s).c}
    ELSE IF j.t \in {"map", "seq"}
    THEN UNION {JSONRefs(j.kids[i].v) : i \in 1..Len(j.kids)}
    ELSE {}

\* C9: FromJSON parses every JSON object of exactly one entry, keyed "/", with
\* a string value as a Reference at any nesting depth (top level, element of
\* an array, value of a key of an enclosing object): the Node's object tree
\* holds a Reference there and Links() lists it.
C9_RefsParsedAtAnyDepth ==
    (call.op = "FromJSON" /\ node.err = "") =>
        /\ RefsParsed(call.in, node.node.obj)
        /\ \A c \in JSONRefs(call.in) :
              \E i \in 1..Len(Links(node.node)) : Links(node.node)[i] = Link(c)

\* the object tree o holds a Reference only where the JSON value j holds a
\* one-entry object keyed "/", keeps every other map as a map of the same
\* keys and every empty map or slice empty
RECURSIVE LinkBoundary(_, _)
LinkBoundary(j, o) ==
    /\ o.t = "link" => (j.t = "map" /\ Len(j.kids) = 1 /\ j.kids[1].k = <<Slash>>)
    /\ (j.t = "map" /\ (Len(j.kids) # 1 \/ j.kids[1].k # <<Slash>>)) =>
            /\ o.t = "map"
            /\ Len(o.kids) = Len(j.kids)
            /\ \A i \in 1..Len(j.kids) :
                  /\ o.kids[i].k = j.kids[i].k
                  /\ LinkBoundary(j.kids[i].v, o.kids[i].v)
    /\ j.t = "seq" =>
            /\ o.t = "seq"
            /\ Len(o.kids) = Len(j.kids)
            /\ \A i \in 1..Len(j.kids) : LinkBoundary(j.kids[i].v, o.kids[i].v)

\* the JSON value j renders the object tree o: a Reference as a one-entry
\* object keyed "/", a map as an object of the same keys, a slice as an array
\* of the same length, an empty one as an empty one
RECURSIVE Rendered(_, _)
Rendered(o, j) ==
    CASE o.t = "link" -> j = MapV(<<Entry(<<Slash>>, StrV(cidString(o.s)))>>)
      [] o.t \in {"map", "seq"} ->
            /\ j.t = o.t
            /\ Len(j.kids) = Len(o.kids)
            /\ \A i \in 1..Len(o.kids) :
                  /\ j.kids[i].k = o.kids[i].k
                  /\ Rendered(o.kids[i].v, j.kids[i].v)
      [] OTHER -> j = o

\* C10: A mapping is taken for a Reference only if it has exactly one entry
\* and that entry's key is "/"; a mapping holding "/" beside another key stays
\* an ordinary mapping and an empty object or array stays empty, in FromJSON
\* and in the JSON rendering (MarshalJSON, convertToJSONIsh, toSaneMap).
C10_LinkBoundaryIsSizeOne ==
    /\ (call.op = "FromJSON" /\ node.err = "") =>
            LinkBoundary(call.in, node.node.obj)
    /\ (call.op = "FromJSON" /\ call.in.t = "map" /\ Len(call.in.kids) >= 2
            /\ EffectiveHash(call.mhType) \in {SHA2_256, SHA2_512}) =>
            (node.err = "" /\ node.node.obj.t = "map")
    /\ ret.op = "MarshalJSON" =>
            (ret.r.err = "" /\ Rendered(node.node.obj, ret.r.v))
    /\ (ret.op = "convertToJSONIsh" /\ call.in.t = "imap" /\ Len(call.in.kids) # 1) =>
            /\ ret.r.err = ""
            /\ ret.r.v = MapV(call.in.kids)
    /\ (ret.op = "convertToJSONIsh" /\ call.in.t = "seq" /\ Len(call.in.kids) = 0) =>
            (ret.r.err = "" /\ ret.r.v = call.in)

\* FromJSON was given an object holding "/" with the text of an identifier
\* beside another key, and its Node has been rendered as JSON.
C10_Witness ==
    /\ call.op = "FromJSON"
    /\ call.in.t = "map"
    /\ Len(call.in.kids) = 2
    /\ HasKey(call.in, <<Slash>>)
    /\ Lookup(call.in, <<Slash>>) = StrV(cidString(X1))
    /\ ret.op = "MarshalJSON"
    /\ ret.r.v = call.in

----------------------------------------------------------------------------
(* Properties of paths *)

Nowhere == Val("nowhere", 0, <<>>, <<>>)

\* the value the field path p leads to in v: each segment is a key of the
\* map or the decimal index of the slice it is applied to
RECURSIVE At(_, _)
At(v, p) ==
    IF p = <<>> THEN v
    ELSE IF v.t = "map" /\ HasKey(v, p[1]) THEN At(Lookup(v, p[1]), Tail(p))
    ELSE IF v.t = "seq" /\ \E i \in 1..Len(v.kids) : FormatInt(i - 1) = p[1]
    THEN At(v.kids[CHOOSE i \in 1..Len(v.kids) : FormatInt(i - 1) = p[1]].v, Tail(p))
    ELSE Nowhere

\* C4: Reference round trip: for every object holding a Reference to X at the
\* field path p, WrapObject, then Decode of the Node's RawData, then
\* ResolveLink(p) returns a link whose Cid is X and no remaining segments.
C4_ReferenceRoundTrip ==
    (ret.op = "ResolveLink" /\ At(call.in, ret.path).t = "link") =>
        /\ ret.r.err = ""
        /\ ret.r.kind = "link"
        /\ ret.r.val.s = At(call.in, ret.path).s
        /\ ret.r.rest = <<>>

\* ResolveLink was asked for a Reference that sits two levels deep in the
\* object that was wrapped.
C4_Witness ==
    /\ ret.op = "ResolveLink"
    /\ Len(ret.path) = 2
    /\ At(call.in, ret.path) = LinkV(X2)
    /\ ret.r.err = ""

\* C5: Resolve treats a Reference as terminal: if the first k segments of the
\* path (k < Len(path)) lead to a Reference, Resolve returns that Reference,
\* the segments path[k:] and no error; if the whole path leads to a Reference
\* it is returned with no remaining segments.
C5_ReferenceIsTerminal ==
    ret.op = "Resolve" =>
        \A k \in 0..Len(ret.path) :
            LET v == At(node.node.obj, SubSeq(ret.path, 1, k))
            IN  v.t = "link" =>
                    /\ ret.r.err = ""
                    /\ ret.r.kind = "link"
                    /\ ret.r.val = v
                    /\ ret.r.rest = SubSeq(ret.path, k + 1, Len(ret.path))
                    /\ SubSeq(ret.path, 1, k) \o ret.r.rest = ret.path

\* Resolve met a Reference after one segment of a path of three.
C5_Witness ==
    /\ ret.op = "Resolve"
    /\ Len(ret.path) = 3
    /\ At(node.node.obj, SubSeq(ret.path, 1, 1)).t = "link"
    /\ Len(ret.r.rest) = 2

\* C6: Resolve fails with ErrNoSuchLink on a segment that is no key of the
\* mapping it is looked up in, with a parse error on a segment applied to a
\* sequence that is no integer, with an index error when the integer is
\* negative or not below the length, and on a segment applied to a scalar; in
\* every error case it returns no value and no remaining segments.
C6_ResolveErrors ==
    ret.op = "Resolve" =>
        /\ \A k \in 0..(Len(ret.path) - 1) :
              LET v == At(node.node.obj, SubSeq(ret.path, 1, k))
                  seg == ret.path[k + 1]
                  digits == IF seg # <<>> /\ seg[1] \in {43, 45} THEN Tail(seg) ELSE seg
                  isInt == digits # <<>> /\ \A i \in 1..Len(digits) : IsDigit(digits[i])
                  int == IF seg[1] = 45 THEN 0 - DigitsValue(digits) ELSE DigitsValue(digits)
              IN  /\ (v.t = "map" /\ seg \notin {v.kids[i].k : i \in 1..Len(v.kids)}) =>
                        ret.r.err = "no such link found"
                  /\ (v.t = "seq" /\ ~isInt) => ret.r.err = "invalid syntax"
                  /\ (v.t = "seq" /\ isInt /\ (int < 0 \/ int >= Len(v.kids))) =>
                        ret.r.err = "array index out of range"
                  /\ v.t \in {"int", "str", "bytes", "float", "bool", "null"} =>
                        ret.r.err # ""
        /\ ret.r.err # "" => (ret.r.kind = "nil" /\ ret.r.rest = <<>>)

\* Resolve was asked for index 9 of a sequence inside a mapping.
C6_Witness ==
    /\ ret.op = "Resolve"
    /\ Len(ret.path) = 2
    /\ node.node.obj.t = "map"
    /\ At(node.node.obj, SubSeq(ret.path, 1, 1)).t = "seq"
    /\ ret.path[2] = <<57>>
    /\ ret.r.err = "array index out of range"

\* the number of slash-separated segments of a path
Segments(str) == Cardinality({i \in 1..Len(str) : str[i] = Slash}) + 1

\* C7: Tree(prefix, depth) returns all matching suffixes when depth < 0, no
\* path when depth = 0, and exactly the matching suffixes of at most d
\* segments when depth = d > 0; the matching suffixes are what Tree(prefix, -1)
\* returns.
C7_TreeDepth ==
    ret.op = "Tree" =>
        LET all == Tree(node.node, ret.path, 0 - 1)
        IN  ret.r = IF ret.depth < 0 THEN all
                    ELSE SelectSeq(all, LAMBDA str : Segments(str) <= ret.depth)

\* the path that joins the segments of a walk with slashes
RECURSIVE Join(_)
Join(w) ==
    IF Len(w) = 0 THEN <<>>
    ELSE IF Len(w) = 1 THEN w[1]
    ELSE w[1] \o <<Slash>> \o Join(Tail(w))

\* the segments a slash-joined path is made of ("" has none)
RECURSIVE Split(_, _)
Split(str, acc) ==
    IF str = <<>> THEN (IF acc = <<>> THEN <<>> ELSE <<acc>>)
    ELSE IF str[1] = Slash THEN <<acc>> \o Split(Tail(str), <<>>)
    ELSE Split(Tail(str), Append(acc, str[1]))

\* C8: Tree(prefix, -1) returns exactly the slash-joined paths, relative to
\* prefix, of all values strictly below the value at path prefix, the prefix
\* being matched by whole segments; a recorded path that is not under prefix
\* contributes nothing.
C8_TreePaths ==
    (ret.op = "Tree" /\ ret.depth = 0 - 1) =>
        {ret.r[i] : i \in 1..Len(ret.r)} =
            {Join(w) : w \in Walks(At(node.node.obj, Split(ret.path, <<>>))) \ {<<>>}}

----------------------------------------------------------------------------
(* The store (BasicIpldStore and BatchOpIpldStore over a blockstore)       *)
(*                                                                         *)
(* Representation.                                                         *)
(*  - The store is a record: viewer (whether the blockstore is also an     *)
(*    IpldBlockstoreViewer), mh (the DefaultMultihash field, 0 when not    *)
(*    set), data (the blocks of the blockstore, one per identifier) and    *)
(*    batches (the block lists its PutMany was called with, in order).     *)
(*  - A Go value handed to Put is a record saying whether it is a          *)
(*    cidProvider and what its Cid() returns, whether it is a              *)
(*    cbg.CBORMarshaler and what its MarshalCBOR writes or fails with,     *)
(*    and its object tree for the refmt path.                              *)
(*  - A CborByteArray is its bytes and the capacity of its backing array.  *)
(*  - An output value is a CborByteArray (a cbg.CBORUnmarshaler) or an     *)
(*    interface{} holding an object tree.                                  *)

Value(cider, c, marsh, raw, merr, obj) ==
    [cider |-> cider, cid |-> c, marsh |-> marsh, raw |-> raw, merr |-> merr, obj |-> obj]

ByteArray(data, cap) == [unm |-> TRUE, data |-> data, cap |-> cap, val |-> NullV]
Iface(val) == [unm |-> FALSE, data |-> <<>>, cap |-> 0, val |-> val]

\* Prefix of an identifier. The digest of the model is the hashed data, so
\* the digest size of a hash function is the length of what it hashes: the
\* length of an identifier that holds a whole digest (MhLength 32 of a
\* SHA2-256 identifier) asks for a whole digest again.
Prefix(c) == [Codec |-> c[2], MhType |-> c[3], MhLength |-> 0 - 1]

\* Prefix.Sum
PrefixSum(pref, data) ==
    LET hash == mhSum(data, pref.MhType, pref.MhLength)
    IN  IF hash.err # "" THEN [err |-> hash.err, c |-> Undef]
        ELSE [err |-> "", c |-> NewCidV1(pref.Codec, hash.h)]

\* CborByteArray.MarshalCBOR: the header of a byte string, then the bytes
MarshalCBOR(c) == ItemHead(2, Len(c.data)) \o c.data

\* CborByteArray.RawData
RawData(c) == MarshalCBOR(c)

\* CborByteArray.Cid
CborByteArrayCid(c) ==
    LET cc == PrefixSum([Codec |-> DagCBOR, MhType |-> SHA2_256, MhLength |-> 0 - 1],
                        RawData(c))
    IN  IF cc.err # "" THEN Undef ELSE cc.c

\* a *CborByteArray as the value handed to Put
Cborstr(str) ==
    LET c == ByteArray(str, Len(str))
    IN  Value(TRUE, CborByteArrayCid(c), TRUE, MarshalCBOR(c), "", BytesV(str))

\* the big-endian number held in bytes
RECURSIVE BigEndian(_)
BigEndian(b) ==
    IF b = <<>> THEN 0 ELSE BigEndian(SubSeq(b, 1, Len(b) - 1)) * 256 + b[Len(b)]

\* cbg.CborReadHeader: the major type and the argument of the item at the
\* head of b, and the index of the byte after the header
CborReadHeader(b) ==
    IF b = <<>> THEN [err |-> "EOF", maj |-> 0, extra |-> 0, next |-> 1]
    ELSE LET maj == b[1] \div 32
             low == b[1] % 32
             width == CASE low = 24 -> 1 [] low = 25 -> 2 [] low = 26 -> 4 [] OTHER -> 8
         IN  IF low < 24 THEN [err |-> "", maj |-> maj, extra |-> low, next |-> 2]
             ELSE IF low > 27
             THEN [err |-> "invalid header", maj |-> 0, extra |-> 0, next |-> 1]
             ELSE IF Len(b) < 1 + width
             THEN [err |-> "unexpected EOF", maj |-> 0, extra |-> 0, next |-> 1]
             ELSE IF low = 24 /\ b[2] < 24
             THEN [err |-> "cbor input was not canonical", maj |-> 0, extra |-> 0, next |-> 1]
             ELSE [err |-> "", maj |-> maj, extra |-> BigEndian(SubSeq(b, 2, 1 + width)),
                   next |-> 2 + width]

\* io.ReadFull(r, arr), r holding the bytes of b from index next on: the
\* slice is filled as long as it is, len(arr) bytes are wanted
ReadFull(arr, b, next) ==
    [err |-> IF Len(b) - next + 1 >= Len(arr.data) THEN ""
             ELSE IF Len(b) - next + 1 <= 0 THEN "EOF" ELSE "unexpected EOF",
     out |-> [arr EXCEPT !.data =
                 [i \in 1..Len(arr.data) |->
                     IF i <= Len(b) - next + 1 THEN b[next + i - 1] ELSE arr.data[i]]]]

\* CborByteArray.UnmarshalCBOR on the receiver c, after the header h was
\* read: a new array is made only when the capacity of the old one is below
\* the announced length
UnmarshalBody(c, b, h) ==
    IF h.err # "" THEN [err |-> h.err, out |-> c]
    ELSE IF h.maj # 2 THEN [err |-> "expected byte array", out |-> c]
    ELSE ReadFull(IF c.cap < h.extra THEN ByteArray([i \in 1..h.extra |-> 0], h.extra) ELSE c,
                  b, h.next)

\* CborByteArray.UnmarshalCBOR on the receiver c
UnmarshalCBOR(c, b) == UnmarshalBody(c, b, CborReadHeader(b))

\* the bits of float64(n), for an integer below 2^20 in size
Float64bits(n) ==
    LET a == IF n < 0 THEN 0 - n ELSE n
        e == CHOOSE k \in 0..20 : 2^k <= a /\ a < 2^(k + 1)
        frac == (a - 2^e) * 2^(20 - e)
        biased == e + 1023
        sign == IF n < 0 THEN 128 ELSE 0
    IN  IF a = 0 THEN <<0, 0, 0, 0, 0, 0, 0, 0>>
        ELSE <<sign + biased \div 16, (biased % 16) * 16 + frac \div 65536,
               (frac \div 256) % 256, frac % 256, 0, 0, 0, 0>>

Base64Char(n) ==
    CASE n < 26 -> 65 + n
      [] n >= 26 /\ n < 52 -> 97 + (n - 26)
      [] n >= 52 /\ n < 62 -> 48 + (n - 52)
      [] n = 62 -> 43
      [] OTHER -> 47

\* base64.StdEncoding, which encoding/json writes a []byte with
RECURSIVE Base64(_)
Base64(b) ==
    CASE Len(b) = 0 -> <<>>
      [] Len(b) = 1 ->
            <<Base64Char(b[1] \div 4), Base64Char((b[1] % 4) * 16), 61, 61>>
      [] Len(b) = 2 ->
            <<Base64Char(b[1] \div 4), Base64Char((b[1] % 4) * 16 + b[2] \div 16),
              Base64Char((b[2] % 16) * 4), 61>>
      [] OTHER ->
            <<Base64Char(b[1] \div 4), Base64Char((b[1] % 4) * 16 + b[2] \div 16),
              Base64Char((b[2] % 16) * 4 + b[3] \div 64), Base64Char(b[3] % 64)>>
                \o Base64(SubSeq(b, 4, Len(b)))

\* json.Marshal of a converted value followed by json.Unmarshal into an
\* interface{}: every number comes back a float64, a []byte comes back the
\* string of its base64 text, a cid.Cid comes back the map {"/": text}.
RECURSIVE jsonRoundTrip(_)
jsonRoundTrip(v) ==
    CASE v.t = "int" -> FloatV(Float64bits(v.n))
      [] v.t = "bytes" -> StrV(Base64(v.s))
      [] v.t = "link" -> MapV(<<Entry(<<Slash>>, StrV(cidString(v.s)))>>)
      [] v.t \in {"map", "seq"} ->
            Val(v.t, 0, <<>>,
                [i \in 1..Len(v.kids) |-> Entry(v.kids[i].k, jsonRoundTrip(v.kids[i].v))])
      [] OTHER -> v

\* DecodeInto from the json.Marshal on: jsonable is what convertToJSONIsh
\* returned
DecodeJSONIsh(jsonable, v) ==
    IF jsonable.err # "" THEN [err |-> jsonable.err, out |-> v]
    ELSE [err |-> "", out |-> Iface(jsonRoundTrip(jsonable.v))]

\* DecodeInto from convertToJSONIsh on: m is what decodeCBOR returned
DecodeValue(m, v) ==
    IF m.err # "" THEN [err |-> m.err, out |-> v]
    ELSE DecodeJSONIsh(convertToJSONIsh(m.v), v)

\* DecodeInto, for an interface{} to decode into
DecodeInto(b, v) == DecodeValue(decodeCBOR(b), v)

\* an error of the kind SerializationError; the error it wraps is not kept
NewSerializationError(err) == "SerializationError"

\* the return of decode for a cbg.CBORUnmarshaler, r being what
\* UnmarshalCBOR returned
Unmarshalled(r) ==
    IF r.err # "" THEN [err |-> NewSerializationError(r.err), out |-> r.out]
    ELSE [err |-> "", out |-> r.out]

\* BasicIpldStore.decode, of a store without an Atlas
decode(b, out) ==
    IF out.unm THEN Unmarshalled(UnmarshalCBOR(out, b)) ELSE DecodeInto(b, out)

\* the block the blockstore holds under c, if it holds one
Held(data, c) == {blk \in data : blk.cid = c}

\* mockBlocks.Put
BlocksPut(data, blk) == {b \in data : b.cid # blk.cid} \cup {blk}

\* a Get that answers an identifier the blockstore does not hold with
\* success and an empty value
GetEmptyOnMiss(s, c, out) ==
    IF Held(s.data, c) = {}
    THEN [err |-> "", out |-> IF out.unm THEN ByteArray(<<>>, out.cap) ELSE Iface(NullV)]
    ELSE decode((CHOOSE blk \in Held(s.data, c) : TRUE).raw, out)

\* BasicIpldStore.Get: through Viewer.View when the blockstore has one,
\* through Blocks.Get otherwise; neither path reaches decode for an
\* identifier the blockstore does not hold.
Get(s, c, out) ==
    IF s.viewer
    THEN IF Held(s.data, c) = {} THEN [err |-> "not found", out |-> out]
         ELSE decode((CHOOSE blk \in Held(s.data, c) : TRUE).raw, out)
    ELSE LET blk == Held(s.data, c)
         IN  IF blk = {} THEN [err |-> "not found", out |-> out]
             ELSE decode((CHOOSE b \in blk : TRUE).raw, out)

ErrMismatch == "your object is not being serialized the way it expects to"

PutOk(c, data) == [err |-> "", c |-> c, data |-> data]
PutFail(e, data) == [err |-> e, c |-> Undef, data |-> data]

\* mhType, mhLen and codec as Put has them when it hashes v: those of the
\* identifier of a cidProvider, those of the store otherwise
PutPrefix(s, v) ==
    IF v.cider THEN Prefix(v.cid)
    ELSE [Codec |-> DagCBOR,
          MhType |-> IF s.mh # 0 THEN s.mh ELSE DefaultMultihash,
          MhLength |-> 0 - 1]

\* the end of both branches of Put: the block is written, then its
\* identifier is compared with expCid
PutBlock(data, blk, expCid) ==
    IF expCid # Undef /\ blk.cid # expCid
    THEN PutFail(ErrMismatch, BlocksPut(data, blk))
    ELSE PutOk(blk.cid, BlocksPut(data, blk))

\* Put of a cbg.CBORMarshaler, c being what pref.Sum returned
PutMarshalled(s, v, c, expCid) ==
    IF v.merr # "" THEN PutFail(NewSerializationError(v.merr), s.data)
    ELSE IF c.err # "" THEN PutFail(c.err, s.data)
    ELSE PutBlock(s.data, Block(v.raw, c.c), expCid)

\* Put of any other value, nd being what WrapObject returned
PutWrapped(s, nd, expCid) ==
    IF nd.err # "" THEN PutFail(nd.err, s.data)
    ELSE PutBlock(s.data, Block(nd.node.raw, nd.node.cid), expCid)

\* Put from the test for cbg.CBORMarshaler on
PutWith(s, v, pref, expCid) ==
    IF v.marsh THEN PutMarshalled(s, v, PrefixSum(pref, v.raw), expCid)
    ELSE PutWrapped(s, WrapObject(v.obj, pref.MhType, pref.MhLength), expCid)

\* BasicIpldStore.Put. The expCid that is compared at the end is the one
\* declared before the cidProvider test; the assignment inside that test
\* declares a second expCid of its own, so the outer one stays cid.Undef.
Put(s, v) == PutWith(s, v, PutPrefix(s, v), Undef)

\* the blocks written one after the other, each under its identifier
RECURSIVE BlocksPutAll(_, _)
BlocksPutAll(data, blocks) ==
    IF blocks = <<>> THEN data
    ELSE BlocksPutAll(BlocksPut(data, blocks[1]), Tail(blocks))

\* The loop of BatchOpIpldStore.PutMany from value i on. pref holds mhType,
\* mhLen and codec, which are declared before the loop and assigned inside
\* it, so what a cidProvider sets is still set when the next value is
\* reached; blocks are the blocks made so far.
RECURSIVE PutManyLoop(_, _, _, _)
RECURSIVE PutManyBlock(_, _, _, _, _)

\* mhType, mhLen and codec after the cidProvider test of value v
PutManyPrefix(v, pref) == IF v.cider THEN Prefix(v.cid) ELSE pref

\* the expCid of value v
ExpCid(v) == IF v.cider THEN v.cid ELSE Undef

\* the identifier check of value i, and the rest of the loop
PutManyBlock(vs, i, pref, blocks, blk) ==
    IF ExpCid(vs[i]) # Undef /\ blk.cid # ExpCid(vs[i])
    THEN [err |-> ErrMismatch, blocks |-> blocks]
    ELSE PutManyLoop(vs, i + 1, pref, Append(blocks, blk))

\* value i is a cbg.CBORMarshaler, c being what pref.Sum returned
PutManyMarshalled(vs, i, pref, blocks, c) ==
    IF vs[i].merr # "" THEN [err |-> vs[i].merr, blocks |-> blocks]
    ELSE IF c.err # "" THEN [err |-> c.err, blocks |-> blocks]
    ELSE PutManyBlock(vs, i, pref, blocks, Block(vs[i].raw, c.c))

\* value i is any other value, nd being what WrapObject returned
PutManyWrapped(vs, i, pref, blocks, nd) ==
    IF nd.err # "" THEN [err |-> nd.err, blocks |-> blocks]
    ELSE PutManyBlock(vs, i, pref, blocks, Block(nd.node.raw, nd.node.cid))

\* the body of the loop for value i from the test for cbg.CBORMarshaler on
PutManyValue(vs, i, pref, blocks) ==
    IF vs[i].marsh
    THEN PutManyMarshalled(vs, i, pref, blocks, PrefixSum(pref, vs[i].raw))
    ELSE PutManyWrapped(vs, i, pref, blocks,
                        WrapObject(vs[i].obj, pref.MhType, pref.MhLength))

PutManyLoop(vs, i, pref, blocks) ==
    IF i > Len(vs) THEN [err |-> "", blocks |-> blocks]
    ELSE PutManyValue(vs, i, PutManyPrefix(vs[i], pref), blocks)

PutManyResult(e, cids, data, batches) ==
    [err |-> e, cids |-> cids, data |-> data, batches |-> batches]

\* the blockstore's PutMany on the blocks of a loop that met no error
BatchPutMany(s, blocks) ==
    PutManyResult("", [i \in 1..Len(blocks) |-> blocks[i].cid],
                  BlocksPutAll(s.data, blocks), Append(s.batches, blocks))

\* a return of PutMany that writes the blocks made before an error
PutManyReturnWriting(s, r) ==
    IF r.err # "" THEN PutManyResult(r.err, <<>>, BlocksPutAll(s.data, r.blocks), s.batches)
    ELSE BatchPutMany(s, r.blocks)

\* the return of PutMany, r being what the loop ended with
PutManyReturn(s, r) ==
    IF r.err # "" THEN PutManyResult(r.err, <<>>, s.data, s.batches)
    ELSE BatchPutMany(s, r.blocks)

\* mhType, mhLen and codec as they are before the loop
PutManyDefaults(s) ==
    [Codec |-> DagCBOR, MhType |-> IF s.mh # 0 THEN s.mh ELSE DefaultMultihash,
     MhLength |-> 0 - 1]

\* a PutMany that writes the block of each value as soon as it is made
PutManyWritingAsItGoes(s, vs) ==
    PutManyReturnWriting(s, PutManyLoop(vs, 1, PutManyDefaults(s), <<>>))

\* BatchOpIpldStore.PutMany: every block is made first, and the blockstore's
\* PutMany is called once, with all of them, at the end.
PutMany(s, vs) == PutManyReturn(s, PutManyLoop(vs, 1, PutManyDefaults(s), <<>>))

----------------------------------------------------------------------------
(* The store as a state machine: values are put one at a time; then one   *)
(* identifier is fetched into an output value, or, on a store that at     *)
(* most one value was put into, one batch of values is put.               *)

\* how many blocks the blockstore is let grow to
MaxBlocks == 2

\* "a", "ab", "xyz"
StrA == <<97>>
StrAB == <<97, 98>>
StrXYZ == <<120, 121, 122>>

\* a value whose Cid() is the identifier of other bytes than its own
Misclaiming(v, c) == [v EXCEPT !.cid = c]

\* a value of a registered type with a Cid() of its own, hashed with mhType
Provider(obj, mhType) ==
    Value(TRUE, WrapObject(obj, mhType, 0 - 1).node.cid, FALSE, <<>>, "", obj)

\* a value of a registered type, or a map, slice or scalar
Plain(obj) == Value(FALSE, Undef, FALSE, <<>>, "", obj)

\* a cbor-gen type without a Cid() method, writing the bytes of obj
Generated(obj) == Value(FALSE, Undef, TRUE, Marshal(obj), "", obj)

\* the values handed to Put
PutValues ==
    {Cborstr(StrA), Cborstr(StrAB), Cborstr(<<>>),
     Misclaiming(Cborstr(StrA), Cborstr(StrAB).cid),
     [Cborstr(StrA) EXCEPT !.merr = "write failed"],
     Misclaiming(Cborstr(StrA), <<1, DagCBOR, 0, 1, 7>>),
     Generated(StrV(StrA)),
     Plain(IntV(1)), Plain(StrV(StrA)), Plain(LinkV(X1)),
     Plain(MapV(<<Entry(StrA, IntV(1))>>)),
     Provider(StrV(StrAB), SHA2_512),
     Misclaiming(Provider(IntV(1), SHA2_256), Provider(IntV(2), SHA2_256).cid)}

\* the values batches are made of
BatchValues ==
    {Cborstr(StrA),
     Misclaiming(Cborstr(StrAB), Cborstr(StrA).cid),
     [Cborstr(StrAB) EXCEPT !.merr = "write failed"],
     Misclaiming(Cborstr(StrA), <<1, DagCBOR, 0, 1, 7>>),
     Plain(IntV(1)), Plain(StrV(StrA)),
     Provider(StrV(StrAB), SHA2_512)}

\* the batches of at most n values
RECURSIVE Batches(_)
Batches(n) ==
    IF n = 0 THEN {<<>>}
    ELSE Batches(n - 1) \cup {Append(vs, v) : vs \in Batches(n - 1), v \in BatchValues}

\* the output values handed to Get: a new CborByteArray, one that holds
\* "xyz", an empty one cut from a larger array, and a nil interface{}
Receivers == {ByteArray(<<>>, 0), ByteArray(StrXYZ, 3), ByteArray(<<>>, 4), Iface(NullV)}

\* the identifiers asked for: those of the blockstore, cid.Undef, and one the
\* blockstore never holds
Asked(data) == {blk.cid : blk \in data} \cup {Undef, <<1, DagCBOR, SHA2_256, 1, 9>>}

InitStore ==
    /\ CodecAtRest
    /\ bs \in [viewer : BOOLEAN, mh : {0, SHA2_512}, data : {{}}, batches : {<<>>}]
    /\ last = NoRet
    /\ ManyAtRest
    /\ PoolAtRest
    /\ RegistryAtRest

beyondStore == <<codecVars, manyVars, poolVars, registryVars>>

\* s.Put(ctx, v)
PutAct ==
    /\ last.op \in {"none", "Put"}
    /\ Cardinality(bs.data) < MaxBlocks
    /\ UNCHANGED beyondStore
    /\ \E v \in PutValues :
        LET r == Put(bs, v)
        IN  /\ bs' = [bs EXCEPT !.data = r.data]
            /\ last' = [op |-> "Put", v |-> v, c |-> r.c, err |-> r.err, before |-> bs]

\* s.Get(ctx, c, out)
GetAct ==
    /\ last.op \in {"none", "Put"}
    /\ UNCHANGED beyondStore
    /\ UNCHANGED bs
    /\ \E c \in Asked(bs.data), out \in Receivers :
        LET r == Get(bs, c, out)
        IN  last' = [op |-> "Get", c |-> c, out |-> out, got |-> r.out, err |-> r.err]

\* s.PutMany(ctx, vs), the first batch handed to the store
PutManyAct ==
    /\ last.op = "none" \/ (last.op = "Put" /\ last.before.data = {})
    /\ UNCHANGED beyondStore
    /\ \E vs \in Batches(MaxBlocks) :
        LET r == PutMany(bs, vs)
        IN  /\ bs' = [bs EXCEPT !.data = r.data, !.batches = r.batches]
            /\ last' = [op |-> "PutMany", vs |-> vs, cids |-> r.cids, err |-> r.err,
                        before |-> bs]

NextStore ==
    \/ PutAct
    \/ GetAct
    \/ PutManyAct

SpecStore == InitStore /\ [][NextStore]_vars

----------------------------------------------------------------------------
(* Properties of the store *)

\* the bytes a value serializes to: what its MarshalCBOR writes, or the
\* canonical encoding of its object tree
Serialized(v) == IF v.marsh THEN v.raw ELSE Marshal(v.obj)

\* the identifier of the bytes v serializes to, under the hash parameters
\* of the identifier v claims
Computed(v) == PrefixSum(Prefix(v.cid), Serialized(v))

\* v is self-describing, serializes and hashes, and claims another
\* identifier than the one of its bytes
Mismatched(v) ==
    /\ v.cider
    /\ v.merr = ""
    /\ Computed(v).err = ""
    /\ Computed(v).c # v.cid

\* C11: Put on a self-describing value whose claimed identifier differs
\* from the identifier computed by hashing the bytes it serializes to fails
\* with the mismatch error and returns no identifier.
C11_PutMismatchFails ==
    (last.op = "Put" /\ Mismatched(last.v)) =>
        (last.err = ErrMismatch /\ last.c = Undef)

\* the block held under c
BlockAt(data, c) == CHOOSE blk \in Held(data, c) : TRUE

\* the bytes an output value serializes to
SerializedOut(out) == IF out.unm THEN MarshalCBOR(out) ELSE Marshal(out.val)

\* out is of the kind of value the bytes were written from: a CborByteArray
\* for a byte string, an interface{} for anything else
Fits(out, raw) == out.unm <=> (raw # <<>> /\ raw[1] \div 32 = 2)

\* after Put(v) returned c: the blockstore holds under c the bytes v
\* serializes to, they hash to c, and a consistent Cid() of v is c
PutStored ==
    (last.op = "Put" /\ last.err = "") =>
        /\ Held(bs.data, last.c) # {}
        /\ BlockAt(bs.data, last.c).raw = Serialized(last.v)
        /\ PrefixSum(Prefix(last.c), Serialized(last.v)).c = last.c
        /\ (last.v.cider /\ ~Mismatched(last.v)) => last.c = last.v.cid

\* a Get of an identifier the blockstore holds succeeds and yields a value
\* that serializes to the bytes held
GetYields ==
    (last.op = "Get" /\ Held(bs.data, last.c) # {}
        /\ Fits(last.out, BlockAt(bs.data, last.c).raw)) =>
        /\ last.err = ""
        /\ SerializedOut(last.got) = BlockAt(bs.data, last.c).raw

\* C12: after Put(v) returns c without error the blockstore holds under c
\* a block whose bytes hash to c; every later Get(c, out) succeeds and
\* yields a value whose serialization equals that of v; and for a
\* self-describing v with a consistent Cid(), c equals v.Cid().
C12_PutGetRoundTrip == PutStored /\ GetYields

\* the same for Get into a CborByteArray that was never used before
GetYieldsIntoNew ==
    (last.op = "Get" /\ Held(bs.data, last.c) # {}
        /\ Fits(last.out, BlockAt(bs.data, last.c).raw)
        /\ last.out = ByteArray(<<>>, 0)) =>
        /\ last.err = ""
        /\ SerializedOut(last.got) = BlockAt(bs.data, last.c).raw

\* C13: Get for an identifier that is absent from the blockstore, cid.Undef
\* included, returns an error and leaves the output value as it was; it
\* never reports success with an empty value.
C13_GetAbsentFails ==
    (last.op = "Get" /\ Held(bs.data, last.c) = {}) =>
        (last.err # "" /\ last.got = last.out)

\* cid.Undef was asked for, of a store that holds blocks, into a
\* CborByteArray that holds "xyz"
C13_Witness ==
    /\ last.op = "Get"
    /\ last.c = Undef
    /\ bs.data # {}
    /\ Held(bs.data, last.c) = {}
    /\ last.out = ByteArray(StrXYZ, 3)
    /\ last.got = ByteArray(StrXYZ, 3)
    /\ last.err # ""

\* serialization, hashing or the identifier check fails for v
Failing(v) ==
    \/ v.marsh /\ v.merr # ""
    \/ v.cider /\ Computed(v).err # ""
    \/ Mismatched(v)

\* C14: PutMany has no partial commit. If serialization, hashing or the
\* identifier check fails for any value of the batch, PutMany returns an
\* error and the blockstore is as it was: no block of the batch is written,
\* those of the values before the failing one included. Otherwise the
\* blockstore's PutMany is called exactly once, with one block per value in
\* the order of the values, and the identifiers returned are in that order.
C14_PutManyAllOrNothing ==
    (last.op = "PutMany") =>
        IF \E i \in 1..Len(last.vs) : Failing(last.vs[i])
        THEN /\ last.err # ""
             /\ bs.data = last.before.data
             /\ bs.batches = last.before.batches
        ELSE /\ last.err = ""
             /\ Len(bs.batches) = Len(last.before.batches) + 1
             /\ SubSeq(bs.batches, 1, Len(last.before.batches)) = last.before.batches
             /\ LET blocks == bs.batches[Len(bs.batches)]
                IN  /\ Len(blocks) = Len(last.vs)
                    /\ Len(last.cids) = Len(last.vs)
                    /\ \A i \in 1..Len(last.vs) :
                        /\ blocks[i].raw = Serialized(last.vs[i])
                        /\ blocks[i].cid = last.cids[i]
                        /\ Held(bs.data, last.cids[i]) = {blocks[i]}

\* a batch of two was handed to a store that holds a block, the first of
\* the two is sound and the second fails
C14_Witness ==
    /\ last.op = "PutMany"
    /\ last.before.data # {}
    /\ Len(last.vs) = 2
    /\ ~Failing(last.vs[1])
    /\ Failing(last.vs[2])
    /\ last.err # ""
    /\ bs.data = last.before.data

\* the hash function of a store
StoreHash(s) == IF s.mh # 0 THEN s.mh ELSE DefaultMultihash

\* C15: in PutMany the identifier of a value depends on that value and the
\* defaults of the store only. A value without an identifier of its own is
\* hashed with the hash function and length of the store and the dag-cbor
\* code whatever precedes it in the batch, and for every batch vs and index
\* i, PutMany(vs)[i] is the identifier Put(vs[i]) returns on its own.
C15_PutManyLikePut ==
    (last.op = "PutMany" /\ last.err = "") =>
        \A i \in 1..Len(last.vs) :
            /\ last.cids[i] = Put(last.before, last.vs[i]).c
            /\ ~last.vs[i].cider =>
                   last.cids[i] =
                       PrefixSum([Codec |-> DagCBOR, MhType |-> StoreHash(last.before),
                                  MhLength |-> 0 - 1],
                                 Serialized(last.vs[i])).c

\* the bytes of the byte string that raw serializes
Payload(raw) == SubSeq(raw, CborReadHeader(raw).next, Len(raw))

\* C30: a CborByteArray round-trips whatever the receiver held before. For
\* every byte string x and every earlier value of the receiver (empty,
\* shorter than x, longer than x, or with spare capacity), UnmarshalCBOR of
\* the bytes MarshalCBOR wrote for x succeeds and leaves the receiver equal
\* to x, of length len(x); so Get into a reused output value yields the
\* bytes stored.
C30_ByteArrayRoundTrip ==
    (last.op = "Get" /\ last.out.unm /\ Held(bs.data, last.c) # {}
        /\ Fits(last.out, BlockAt(bs.data, last.c).raw)) =>
        /\ last.err = ""
        /\ last.got.data = Payload(BlockAt(bs.data, last.c).raw)
        /\ MarshalCBOR(last.got) = BlockAt(bs.data, last.c).raw

\* the same for a receiver whose length is the length of the bytes stored,
\* or whose capacity is below it
ByteArrayRoundTripSameLength ==
    (last.op = "Get" /\ last.out.unm /\ Held(bs.data, last.c) # {}
        /\ Fits(last.out, BlockAt(bs.data, last.c).raw)
        /\ \/ Len(last.out.data) = Len(Payload(BlockAt(bs.data, last.c).raw))
           \/ last.out.cap < Len(Payload(BlockAt(bs.data, last.c).raw))) =>
        /\ last.err = ""
        /\ last.got.data = Payload(BlockAt(bs.data, last.c).raw)

----------------------------------------------------------------------------
(* GetMany: the call, its goroutine and the consumer of the channel        *)
(*                                                                         *)
(* The call fetches the blocks and starts a goroutine, the worker. The     *)
(* worker is at "decode" (about to decode block i), at "send" (blocked in  *)
(* the send of the record of block i on the unbuffered channel), at        *)
(* "close" (the loop is over) or "done". Indexes are Go's: the first       *)
(* block, identifier and output slot have index 0.                         *)

\* how many identifiers one GetMany is asked for
MaxCids == 3

Cursor(c, index, err) == [CID |-> c, Index |-> index, Err |-> err]

\* IpldBatchOpBlockStore.GetMany: the blocks held, in the order their
\* identifiers are asked for, and the identifiers not held
RECURSIVE BatchGetMany(_, _)
BatchGetMany(data, cs) ==
    IF cs = <<>> THEN [blks |-> <<>>, missing |-> <<>>]
    ELSE LET r == BatchGetMany(data, Tail(cs))
         IN  IF Held(data, cs[1]) = {}
             THEN [blks |-> r.blks, missing |-> <<cs[1]>> \o r.missing]
             ELSE [blks |-> <<CHOOSE blk \in Held(data, cs[1]) : TRUE>> \o r.blks,
                   missing |-> r.missing]

\* a worker that goes on to close after the record of its first block
AfterSendOnce(blks, i) == [pc |-> "close", i |-> i + 1]

\* where the worker goes when the record of block i is taken
AfterSend(blks, i) ==
    IF i + 1 < Len(blks) THEN [pc |-> "decode", i |-> i + 1]
    ELSE [pc |-> "close", i |-> i + 1]

\* the values put into the store before GetMany is called: two byte
\* arrays and an integer
Stock == <<Cborstr(StrA), Cborstr(StrAB), Plain(IntV(1))>>

\* the identifiers asked for: those of the stock and two never stored
Ids ==
    {blk.cid : blk \in PutMany([viewer |-> FALSE, mh |-> 0, data |-> {}, batches |-> <<>>],
                               Stock).data}
        \cup {Cborstr(StrXYZ).cid, <<1, DagCBOR, SHA2_256, 1, 9>>}

\* the lists of at most n distinct identifiers
RECURSIVE CidLists(_)
CidLists(n) ==
    IF n = 0 THEN {<<>>}
    ELSE CidLists(n - 1) \cup
         {Append(cs, c) : cs \in {l \in CidLists(n - 1) : Len(l) = n - 1},
                          c \in Ids}

Distinct(cs) == \A i, j \in 1..Len(cs) : i # j => cs[i] # cs[j]

\* the output lists of n slots: each a new CborByteArray or a nil interface{}
OutLists(n) == [1..n -> {ByteArray(<<>>, 0), Iface(NullV)}]

InitMany ==
    /\ CodecAtRest
    /\ LET r == PutMany([viewer |-> FALSE, mh |-> 0, data |-> {}, batches |-> <<>>], Stock)
       IN  bs = [viewer |-> FALSE, mh |-> 0, data |-> r.data, batches |-> r.batches]
    /\ last = NoRet
    /\ ManyAtRest
    /\ PoolAtRest
    /\ RegistryAtRest

beyondMany == <<codecVars, storeVars, poolVars, registryVars>>

\* b.GetMany(ctx, cs, outs) up to its return: the length test, the fetch,
\* the channel and the start of the goroutine
GetManyAct ==
    /\ gm.op = "none"
    /\ UNCHANGED beyondMany
    /\ UNCHANGED <<cursors, recvd, ctx>>
    /\ \E cs \in {l \in CidLists(MaxCids) : Distinct(l)}, extra \in {0, 1} :
        \E os \in OutLists(Len(cs) + extra) :
            LET r == BatchGetMany(bs.data, cs)
            IN  /\ outs' = os
                /\ IF Len(cs) # Len(os)
                   THEN /\ gm' = [op |-> "GetMany", cs |-> cs, outs |-> os, blks |-> <<>>,
                                  missing |-> <<>>, err |-> "expected same length"]
                        /\ UNCHANGED worker
                   ELSE /\ gm' = [op |-> "GetMany", cs |-> cs, outs |-> os,
                                  blks |-> r.blks, missing |-> r.missing, err |-> ""]
                        /\ worker' = IF r.blks = <<>> THEN [pc |-> "close", i |-> 0]
                                     ELSE [pc |-> "decode", i |-> 0]

\* a worker that offers the record of block i without having decoded it
WorkerSendsUndecoded ==
    /\ worker.pc = "decode"
    /\ UNCHANGED beyondMany
    /\ UNCHANGED <<gm, recvd, outs, ctx>>
    /\ cursors' = [cursors EXCEPT !.sending =
                      <<Cursor(gm.blks[worker.i + 1].cid, worker.i, "")>>]
    /\ worker' = [worker EXCEPT !.pc = "send"]

\* the worker decodes block i into outs[i] and reaches the send of its record
WorkerDecode ==
    /\ worker.pc = "decode"
    /\ UNCHANGED beyondMany
    /\ UNCHANGED <<gm, recvd, ctx>>
    /\ LET blk == gm.blks[worker.i + 1]
           r == decode(blk.raw, outs[worker.i + 1])
       IN  /\ outs' = [outs EXCEPT ![worker.i + 1] = r.out]
           /\ cursors' = [cursors EXCEPT !.sending = <<Cursor(blk.cid, worker.i, r.err)>>]
    /\ worker' = [worker EXCEPT !.pc = "send"]

\* a worker that leaves its loop when the record taken carries an error
ReceiveEndingOnError ==
    /\ worker.pc = "send"
    /\ UNCHANGED beyondMany
    /\ UNCHANGED <<gm, outs, ctx>>
    /\ recvd' = Append(recvd, cursors.sending[1])
    /\ cursors' = [cursors EXCEPT !.sending = <<>>]
    /\ worker' = IF cursors.sending[1].Err # "" THEN [pc |-> "close", i |-> worker.i + 1]
                 ELSE AfterSend(gm.blks, worker.i)

\* the consumer receives: the send of the worker completes and the worker
\* goes on
Receive ==
    /\ worker.pc = "send"
    /\ UNCHANGED beyondMany
    /\ UNCHANGED <<gm, outs, ctx>>
    /\ recvd' = Append(recvd, cursors.sending[1])
    /\ cursors' = [cursors EXCEPT !.sending = <<>>]
    /\ worker' = AfterSend(gm.blks, worker.i)

\* a worker that ends without closing the channel
WorkerEndsUnclosed ==
    /\ worker.pc = "close"
    /\ UNCHANGED beyondMany
    /\ UNCHANGED <<gm, outs, recvd, cursors, ctx>>
    /\ worker' = [worker EXCEPT !.pc = "done"]

\* close(cursors), and the goroutine ends
WorkerClose ==
    /\ worker.pc = "close"
    /\ UNCHANGED beyondMany
    /\ UNCHANGED <<gm, outs, recvd, ctx>>
    /\ cursors' = [cursors EXCEPT !.closed = TRUE]
    /\ worker' = [worker EXCEPT !.pc = "done"]

\* a worker that gives up its send when the context is cancelled
CancelEndsWorker ==
    /\ gm.op = "GetMany"
    /\ gm.err = ""
    /\ ctx = "live"
    /\ UNCHANGED beyondMany
    /\ UNCHANGED <<gm, outs, recvd>>
    /\ ctx' = "cancelled"
    /\ cursors' = IF worker.pc = "send" THEN [sending |-> <<>>, closed |-> TRUE]
                  ELSE cursors
    /\ worker' = IF worker.pc = "send" THEN [worker EXCEPT !.pc = "done"] ELSE worker

\* the caller cancels the context it handed to GetMany, after the call
\* returned: the goroutine reads ctx nowhere (lines 260-272)
Cancel ==
    /\ gm.op = "GetMany"
    /\ gm.err = ""
    /\ ctx = "live"
    /\ UNCHANGED beyondMany
    /\ UNCHANGED <<gm, outs, recvd, cursors, worker>>
    /\ ctx' = "cancelled"

NextMany ==
    \/ GetManyAct
    \/ WorkerDecode
    \/ Receive
    \/ WorkerClose
    \/ Cancel

SpecGetMany == InitMany /\ [][NextMany]_vars

\* the same under fair scheduling of the worker and a consumer that keeps
\* receiving
SpecGetManyFair ==
    /\ InitMany
    /\ [][NextMany]_vars
    /\ WF_vars(WorkerDecode)
    /\ WF_vars(Receive)
    /\ WF_vars(WorkerClose)

----------------------------------------------------------------------------
(* Properties of GetMany *)

\* the index in cs of identifier c
IndexIn(cs, c) == (CHOOSE p \in 1..Len(cs) : cs[p] = c) - 1

\* the block of the fetched ones that has identifier c
Fetched(c) == CHOOSE blk \in {gm.blks[j] : j \in 1..Len(gm.blks)} : blk.cid = c

\* what decoding the block of identifier c makes of the output slot index,
\* as it was handed to GetMany
Decoding(c, index) == decode(Fetched(c).raw, gm.outs[index + 1])

\* C16: for every record GetMany emits, record.Index is the index of the
\* identifier of the block in the input list, cs[record.Index] ==
\* record.CID, and the block is decoded into outs[record.Index]; also for
\* lists in which identifiers before a found one are missing.
C16_IndexIsOriginal ==
    \A k \in 1..Len(recvd) :
        /\ recvd[k].Index = IndexIn(gm.cs, recvd[k].CID)
        /\ gm.cs[recvd[k].Index + 1] = recvd[k].CID
        /\ outs[IndexIn(gm.cs, recvd[k].CID) + 1] =
               Decoding(recvd[k].CID, IndexIn(gm.cs, recvd[k].CID)).out

\* the same for lists none of whose identifiers is missing
IndexIsOriginalWhenAllFound ==
    (gm.op = "GetMany" /\ gm.missing = <<>>) =>
        \A k \in 1..Len(recvd) :
            /\ gm.cs[recvd[k].Index + 1] = recvd[k].CID
            /\ outs[recvd[k].Index + 1] = Decoding(recvd[k].CID, recvd[k].Index).out

\* what holds of the records received so far: the slot of a record without
\* error holds what decoding the block of its identifier makes of the slot,
\* for a CborByteArray the very bytes of the block; no index comes twice
Published ==
    /\ \A k \in 1..Len(recvd) :
        recvd[k].Err = "" =>
            /\ outs[recvd[k].Index + 1] = Decoding(recvd[k].CID, recvd[k].Index).out
            /\ outs[recvd[k].Index + 1].unm =>
                   MarshalCBOR(outs[recvd[k].Index + 1]) = Fetched(recvd[k].CID).raw
    /\ \A k, l \in 1..Len(recvd) : k # l => recvd[k].Index # recvd[l].Index

\* no step writes the slot of a record that has been received
Settled ==
    \A k \in 1..Len(recvd) : outs'[recvd[k].Index + 1] = outs[recvd[k].Index + 1]

InSeq(s, x) == \E k \in 1..Len(s) : s[k] = x

\* the records received that carry identifier c
RecordsOf(c) == {k \in 1..Len(recvd) : recvd[k].CID = c}

\* C18: GetMany accounts for every requested identifier exactly once. Of a
\* list of distinct identifiers each is either in the missing list or the
\* CID of exactly one record, never both and never neither; there are as
\* many records as found blocks, and the channel is closed after the last.
C18_EveryIdAccounted ==
    (gm.op = "GetMany" /\ gm.err = "") =>
        /\ Len(gm.missing) + Len(gm.blks) = Len(gm.cs)
        /\ \A p \in 1..Len(gm.cs) :
            /\ InSeq(gm.missing, gm.cs[p]) # InSeq([j \in 1..Len(gm.blks) |-> gm.blks[j].cid],
                                                   gm.cs[p])
            /\ InSeq(gm.missing, gm.cs[p]) => RecordsOf(gm.cs[p]) = {}
            /\ Cardinality(RecordsOf(gm.cs[p])) <= 1
        /\ Len(recvd) <= Len(gm.blks)
        /\ \A k \in 1..Len(recvd) : recvd[k].CID = gm.blks[k].cid
        /\ cursors.closed =>
            /\ Len(recvd) = Len(gm.blks)
            /\ cursors.sending = <<>>
            /\ \A j \in 1..Len(gm.blks) : Cardinality(RecordsOf(gm.blks[j].cid)) = 1

\* two stored identifiers and one never stored were asked for: one is
\* missing, two records without error were received, the channel is closed
C18_Witness ==
    /\ gm.op = "GetMany"
    /\ Len(gm.cs) = 3
    /\ Len(gm.missing) = 1
    /\ Len(recvd) = 2
    /\ \A k \in 1..Len(recvd) : recvd[k].Err = ""
    /\ cursors.closed

\* the worker has ended: every record was received and the channel is closed
Drained ==
    /\ worker.pc = "done"
    /\ cursors.closed
    /\ Len(recvd) = Len(gm.blks)

\* C19: GetMany terminates under full drain. If the consumer keeps
\* receiving, then under fair scheduling the worker sends one record per
\* found block, closes the channel and ends; with no block found the
\* channel is closed without any receive.
C19_TerminatesWhenDrained ==
    /\ (gm.op = "GetMany" /\ gm.err = "") ~> []Drained
    /\ []((gm.op = "GetMany" /\ gm.err = "" /\ gm.blks = <<>>) =>
              (recvd = <<>> /\ worker.pc \in {"close", "done"}))

\* three blocks were found, their records received, and the worker is done
C19_Witness ==
    /\ Drained
    /\ Len(gm.blks) = 3

\* nothing was found of two identifiers asked for, and the channel is
\* closed with nothing received
ClosedWithoutReceive ==
    /\ gm.op = "GetMany"
    /\ Len(gm.cs) = 2
    /\ gm.blks = <<>>
    /\ recvd = <<>>
    /\ Drained

\* a worker in its send has not closed the channel and has not ended, and a
\* worker past its loop has had every record received
Unfinished ==
    /\ worker.pc = "send" =>
           (~cursors.closed /\ Len(cursors.sending) = 1 /\ Len(recvd) < Len(gm.blks))
    /\ (worker.pc \in {"close", "done"} \/ cursors.closed) =>
           (gm.err = "" /\ Len(recvd) = Len(gm.blks))

\* a step in which the consumer receives nothing leaves a worker in its send
\* in that send, with the same record and the channel open
StaysSending ==
    (worker.pc = "send" /\ recvd' = recvd) =>
        (worker' = worker /\ cursors' = cursors /\ ~cursors'.closed)

ErrOf(k) == decode(gm.blks[k].raw, gm.outs[k]).err

\* the records received carry the blocks found, in order, each with the
\* error of its own decoding and no other
OwnErrors ==
    \A k \in 1..Len(recvd) :
        /\ recvd[k].CID = gm.blks[k].cid
        /\ recvd[k].Err = ErrOf(k)

\* what GetMany returned stays what it was
ReturnKept == gm.op = "GetMany" => gm' = gm

\* a record with an error has been received
ErrorSeen == \E k \in 1..Len(recvd) : recvd[k].Err # ""

\* C24: a decode failure for one found block of GetMany is reported in that
\* block's record only. The worker still decodes every remaining block
\* found, sends its record and then closes the channel; the error, the
\* missing list and the blocks GetMany returned are as they were.
C24_DecodeFailureInItsRecord ==
    /\ []OwnErrors
    /\ [][ReturnKept]_vars
    /\ ErrorSeen ~> (ErrorSeen /\ Drained)

\* the first of three blocks found failed to decode, the other two did
\* not, and the channel is closed after the third record
C24_Witness ==
    /\ Drained
    /\ Len(recvd) = 3
    /\ recvd[1].Err # ""
    /\ recvd[2].Err = ""
    /\ recvd[3].Err = ""
    /\ gm.err = ""

----------------------------------------------------------------------------
(* The pools of codec instances (PooledCloner, PooledUnmarshaller)         *)
(*                                                                         *)
(* A pool is a buffered channel of Count instances. A caller is out of any *)
(* call ("out"), at the receive that takes an instance ("acquire"), in the *)
(* operation of the instance it holds ("op"), or at the send that gives    *)
(* the instance back ("release").                                          *)

\* the Count of a pool
Count == 2

\* how many goroutines call into the pool
MaxCallers == 3

\* SetAtlas: a channel of capacity count, filled with new instances
SetAtlas(count) == [pool \in {"cloner", "unmarshaller"} |->
                       [pool |-> pool, chan |-> [i \in 1..count |-> i]]]

\* the operations of a pool
Ops(pool) == IF pool = "cloner" THEN {"Clone"} ELSE {"Decode", "Unmarshal"}

Caller(pc, op, held, err) == [pc |-> pc, op |-> op, held |-> held, err |-> err]

InitPool ==
    /\ CodecAtRest
    /\ StoreAtRest
    /\ ManyAtRest
    /\ \E pool \in {"cloner", "unmarshaller"} : idle = SetAtlas(Count)[pool]
    /\ callers = [c \in 1..MaxCallers |-> Caller("out", "none", 0, "")]
    /\ RegistryAtRest

beyondPool == <<codecVars, storeVars, manyVars, registryVars>>

\* a goroutine calls p.Clone, p.Decode or p.Unmarshal
CallPooled ==
    /\ UNCHANGED beyondPool
    /\ UNCHANGED idle
    /\ \E c \in 1..MaxCallers, op \in Ops(idle.pool) :
        /\ callers[c].pc = "out"
        /\ callers' = [callers EXCEPT ![c] = Caller("acquire", op, 0, "")]

\* a receive that hands out the first instance waiting and leaves it in the
\* channel
AcquireLeavingInPlace ==
    /\ UNCHANGED beyondPool
    /\ UNCHANGED idle
    /\ \E c \in 1..MaxCallers :
        /\ callers[c].pc = "acquire"
        /\ idle.chan # <<>>
        /\ callers' = [callers EXCEPT ![c] = Caller("op", callers[c].op, idle.chan[1], "")]

\* c := <-p.cloners: the receive takes the first instance waiting; there
\* is no step while the channel is empty
Acquire ==
    /\ UNCHANGED beyondPool
    /\ \E c \in 1..MaxCallers :
        /\ callers[c].pc = "acquire"
        /\ idle.chan # <<>>
        /\ idle' = [idle EXCEPT !.chan = Tail(idle.chan)]
        /\ callers' = [callers EXCEPT ![c] = Caller("op", callers[c].op, idle.chan[1], "")]

\* err := c.Clone(a, b): the operation returns, with an error or without
Operate ==
    /\ UNCHANGED beyondPool
    /\ UNCHANGED idle
    /\ \E c \in 1..MaxCallers, err \in {"", "refmt error"} :
        /\ callers[c].pc = "op"
        /\ callers' = [callers EXCEPT ![c] =
                          Caller("release", callers[c].op, callers[c].held, err)]

\* p.cloners <- c; return err
Release ==
    /\ UNCHANGED beyondPool
    /\ \E c \in 1..MaxCallers :
        /\ callers[c].pc = "release"
        /\ Len(idle.chan) < Count
        /\ idle' = [idle EXCEPT !.chan = Append(idle.chan, callers[c].held)]
        /\ callers' = [callers EXCEPT ![c] = Caller("out", "none", 0, callers[c].err)]

NextPool ==
    \/ CallPooled
    \/ Acquire
    \/ Operate
    \/ Release

SpecPool == InitPool /\ [][NextPool]_vars

----------------------------------------------------------------------------
(* Properties of the pools *)

\* the callers that hold an instance
Holders == {c \in 1..MaxCallers : callers[c].held # 0}

\* the callers that are in an operation of an instance
Operating == {c \in 1..MaxCallers : callers[c].pc = "op"}

Conserved ==
    /\ Len(idle.chan) + Cardinality(Holders) = Count
    /\ \A c, d \in Holders : c # d => callers[c].held # callers[d].held
    /\ \A c \in Holders : ~InSeq(idle.chan, callers[c].held)
    /\ \A c \in Operating : c \in Holders
    /\ Cardinality(Operating) <= Count

\* a caller at the receive of an empty channel is still there after the step
StaysBlocked ==
    \A c \in 1..MaxCallers :
        (callers[c].pc = "acquire" /\ idle.chan = <<>>) => callers'[c].pc = "acquire"

----------------------------------------------------------------------------
(* Faults of the parser                                                    *)
(*                                                                         *)
(* The parser is refmt's: on any input it returns a value, returns an      *)
(* error, or panics. Which inputs make it panic is not decided by this     *)
(* repository, so a panic is a choice made with every input. What a call   *)
(* comes to has a field panic: TRUE when the call ended in a panic that    *)
(* went on into its caller.                                                *)

\* cbor.UnmarshalAtlased(b, &m, cborAtlas), panicking when fault says so
UnmarshalAtlased(b, fault) ==
    IF fault THEN [panic |-> TRUE, err |-> "", v |-> NullV]
    ELSE [panic |-> FALSE, err |-> Unmarshal(b, 1).err, v |-> Unmarshal(b, 1).v]

\* what the body of decodeCBOR makes of a parse that did not panic
Unmarshalling(r) ==
    IF r.err # "" THEN [panic |-> FALSE, err |-> "failed to unmarshal", v |-> NullV]
    ELSE [panic |-> FALSE, err |-> "", v |-> r.v]

\* a decodeCBOR without the deferred recover
decodeCBORUnrecovered(r) ==
    IF r.panic THEN [panic |-> TRUE, err |-> "", v |-> NullV] ELSE Unmarshalling(r)

\* decodeCBOR around the parse r: the deferred function turns a panic into
\* the error returned
decodeCBORAround(r) ==
    IF r.panic
    THEN [panic |-> FALSE, err |-> "failed to unmarshal - cbor panic", v |-> NullV]
    ELSE Unmarshalling(r)

\* a call that ended in a panic returns nothing
Escaped == [panic |-> TRUE, err |-> "", node |-> NilNode]

Returned(r) == [panic |-> FALSE, err |-> r.err, node |-> r.node]

\* Decode on the decodeCBOR result m of its input
DecodeAfter(m, mhType, mhLen) ==
    IF m.panic THEN Escaped
    ELSE IF m.err # "" THEN Returned(NodeFail(m.err))
    ELSE Returned(WrapObject(m.v, mhType, mhLen))

\* decodeBlock on the decodeCBOR result m of the bytes of its block
decodeBlockAfter(m, block) ==
    IF m.panic THEN Escaped
    ELSE IF m.err # "" THEN Returned(NodeFail(m.err))
    ELSE Returned(NodeOk(Node(m.v, compTree(m.v), compLinks(m.v), block.raw, block.cid)))

\* DecodeInto on the decodeCBOR result m of its input
DecodeIntoAfter(m, v) ==
    IF m.panic THEN [panic |-> TRUE, err |-> "", out |-> v]
    ELSE [panic |-> FALSE, err |-> DecodeValue(m, v).err, out |-> DecodeValue(m, v).out]

\* Decode(b, mhType, mhLen)
DecodeFaultAct ==
    /\ call.op = "none"
    /\ UNCHANGED beyondCodec
    /\ UNCHANGED node
    /\ \E b \in WireInputs, hp \in HashParams, fault \in BOOLEAN :
        /\ call' = Call("Decode", b, hp[1], hp[2])
        /\ ret' = [op |-> "Decode", fault |-> fault,
                   r |-> DecodeAfter(decodeCBORAround(UnmarshalAtlased(b, fault)),
                                     hp[1], hp[2])]

\* DecodeBlock(blk)
DecodeBlockFaultAct ==
    /\ call.op = "none"
    /\ UNCHANGED beyondCodec
    /\ UNCHANGED node
    /\ \E blk \in Blocks, fault \in BOOLEAN :
        /\ call' = Call("DecodeBlock", blk, 0, 0)
        /\ ret' = [op |-> "DecodeBlock", fault |-> fault,
                   r |-> decodeBlockAfter(decodeCBORAround(UnmarshalAtlased(blk.raw, fault)),
                                          blk)]

\* DecodeInto(b, &v), v a nil interface{}
DecodeIntoFaultAct ==
    /\ call.op = "none"
    /\ UNCHANGED beyondCodec
    /\ UNCHANGED node
    /\ \E b \in WireInputs, fault \in BOOLEAN :
        /\ call' = Call("DecodeInto", b, 0, 0)
        /\ ret' = [op |-> "DecodeInto", fault |-> fault,
                   r |-> DecodeIntoAfter(decodeCBORAround(UnmarshalAtlased(b, fault)),
                                         Iface(NullV))]

NextFault ==
    \/ DecodeFaultAct
    \/ DecodeBlockFaultAct
    \/ DecodeIntoFaultAct

SpecFault == Init /\ [][NextFault]_vars

----------------------------------------------------------------------------
(* Properties of decoding under faults *)

\* the bytes the call was given
BytesIn == IF call.op = "DecodeBlock" THEN call.in.raw ELSE call.in

\* a call whose parser did not panic comes to what the call comes to in the
\* codec above
AsWithoutFault ==
    /\ (call.op = "Decode" /\ ~ret.fault) =>
           Returned(Decode(call.in, call.mhType, call.mhLen)) = ret.r
    /\ (call.op = "DecodeBlock" /\ ~ret.fault) => Returned(DecodeBlock(call.in)) = ret.r
    /\ (call.op = "DecodeInto" /\ ~ret.fault) =>
           (ret.r.err = DecodeInto(call.in, Iface(NullV)).err
               /\ ret.r.out = DecodeInto(call.in, Iface(NullV)).out)

\* C26: decoding never lets a fault of the parser escape. For every input
\* Decode, DecodeBlock and DecodeInto return a result or an error; a panic
\* raised inside the parser is caught and returned as a decode error, and
\* no node is returned together with an error.
C26_ParserFaultCaught ==
    call.op \in {"Decode", "DecodeBlock", "DecodeInto"} =>
        /\ ~ret.r.panic
        /\ ret.fault => ret.r.err # ""
        /\ Unmarshal(BytesIn, 1).err # "" => ret.r.err # ""
        /\ (call.op # "DecodeInto" /\ ret.r.err # "") => ret.r.node = NilNode
        /\ AsWithoutFault

\* the parser panicked on bytes it would have decoded, and Decode returned
\* an error
C26_Witness ==
    /\ call.op = "Decode"
    /\ ret.fault
    /\ Unmarshal(call.in, 1).err = ""
    /\ ret.r.err # ""
    /\ ~ret.r.panic

----------------------------------------------------------------------------
(* Copy, and writes through a Node and its copy                            *)
(*                                                                         *)
(* What can be written in place through a Node: the array of raw, the      *)
(* arrays of tree and of links, each Link that links points to, and, in    *)
(* the object tree, each map, each slice and the array of each []byte. A   *)
(* place is named <<"raw">>, <<"tree">>, <<"links">>, <<"link", k>> or     *)
(* <<"obj", walk>>, walk being the keys and indices that lead to it. A     *)
(* copy is the Node it holds and the places at which it holds the very     *)
(* array, map or Link of the original.                                     *)

\* the value inside v that walk leads to
RECURSIVE ValueAt(_, _)
ValueAt(v, walk) ==
    IF walk = <<>> THEN v
    ELSE LET i == CHOOSE j \in 1..Len(v.kids) :
                      walk[1] = (IF v.t = "seq" THEN FormatInt(j - 1) ELSE v.kids[j].k)
         IN  ValueAt(v.kids[i].v, Tail(walk))

\* v with new in the place of the value that walk leads to
RECURSIVE Rewrite(_, _, _)
Rewrite(v, walk, new) ==
    IF walk = <<>> THEN new
    ELSE [v EXCEPT !.kids =
             [j \in 1..Len(v.kids) |->
                 IF walk[1] = (IF v.t = "seq" THEN FormatInt(j - 1) ELSE v.kids[j].k)
                 THEN Entry(v.kids[j].k, Rewrite(v.kids[j].v, Tail(walk), new))
                 ELSE v.kids[j]]]

\* copyObj, as the walks inside i at which the result holds what i holds: a
\* map and a slice are made anew and filled with the copies of their
\* entries; anything else is returned as it is, and of those a []byte has
\* an array behind it
RECURSIVE copyObj(_, _)
copyObj(i, walk) ==
    CASE i.t \in {"map", "imap"} ->
            UNION {copyObj(i.kids[j].v, walk \o <<i.kids[j].k>>) : j \in 1..Len(i.kids)}
      [] i.t = "seq" ->
            UNION {copyObj(i.kids[j].v, walk \o <<FormatInt(j - 1)>>) : j \in 1..Len(i.kids)}
      [] OTHER -> IF i.t = "bytes" THEN {<<"obj", walk>>} ELSE {}

\* n.Copy(): new arrays for links, raw and tree, filled by copy(), which
\* copies the pointers of links, not the Links; obj by copyObj; cid as it is
Copy(n) ==
    [node |-> Node(n.obj, n.tree, n.links, n.raw, n.cid),
     shared |-> {<<"link", k>> : k \in 1..Len(n.links)} \cup copyObj(n.obj, <<>>)]

\* the places of nd something can be written at: arrays that are not empty,
\* the Links, the maps and the slices
Places(nd) ==
    (IF nd.raw # <<>> THEN {<<"raw">>} ELSE {})
        \cup (IF nd.tree # <<>> THEN {<<"tree">>} ELSE {})
        \cup (IF nd.links # <<>> THEN {<<"links">>} ELSE {})
        \cup {<<"link", k>> : k \in 1..Len(nd.links)}
        \cup {<<"obj", w>> : w \in {x \in Walks(nd.obj) :
                 \/ ValueAt(nd.obj, x).t \in {"map", "seq"}
                 \/ ValueAt(nd.obj, x).t = "bytes" /\ ValueAt(nd.obj, x).s # <<>>}}

\* a value of the kind of v that is not v: another first byte, an entry "z"
\* or an element more
Written(v) ==
    CASE v.t = "bytes" -> BytesV(<<(v.s[1] + 1) % 256>> \o Tail(v.s))
      [] v.t = "seq" -> SeqV([j \in 1..Len(v.kids) |-> v.kids[j].v] \o <<IntV(9)>>)
      [] OTHER -> MapV(v.kids \o <<Entry(<<122>>, IntV(9))>>)

\* nd after a write at place p
WriteAt(nd, p) ==
    CASE p[1] = "raw" -> [nd EXCEPT !.raw = <<(nd.raw[1] + 1) % 256>> \o Tail(nd.raw)]
      [] p[1] = "tree" -> [nd EXCEPT !.tree = <<<<122>>>> \o Tail(nd.tree)]
      [] p[1] = "links" -> [nd EXCEPT !.links = <<Link(<<1, 85, SHA2_256, 1, 9>>)>> \o Tail(nd.links)]
      [] p[1] = "link" -> [nd EXCEPT !.links[p[2]] = Link(<<1, 85, SHA2_256, 1, 9>>)]
      [] OTHER -> [nd EXCEPT !.obj = Rewrite(nd.obj, p[2], Written(ValueAt(nd.obj, p[2])))]

\* the values wrapped into the Node that is copied: byte strings, links,
\* integers, and maps and slices of them
CopyValues ==
    LET leaves == {BytesV(StrA), BytesV(StrAB), LinkV(X1), IntV(1)}
    IN  leaves \cup Nested(leaves, MaxDepth)

InitCopy ==
    /\ \E m \in CopyValues :
        /\ call = Call("WrapObject", m, SHA2_256, 0 - 1)
        /\ node = WrapObject(m, SHA2_256, 0 - 1)
    /\ ret = NoRet
    /\ StoreAtRest
    /\ ManyAtRest
    /\ PoolAtRest
    /\ RegistryAtRest

\* n.Copy()
CopyAct ==
    /\ ret.op = "none"
    /\ node.err = ""
    /\ UNCHANGED beyondCodec
    /\ UNCHANGED <<call, node>>
    /\ ret' = [op |-> "Copy", copy |-> Copy(node.node).node,
               shared |-> Copy(node.node).shared]

\* one write in place, through the copy or through the original; it is
\* seen through the other when the place is one the two share
WriteAct ==
    /\ ret.op = "Copy"
    /\ UNCHANGED beyondCodec
    /\ UNCHANGED call
    /\ \E via \in {"copy", "original"}, p \in Places(node.node) :
        LET throughCopy == via = "copy" \/ p \in ret.shared
            throughOriginal == via = "original" \/ p \in ret.shared
        IN  /\ node' = IF throughOriginal THEN NodeOk(WriteAt(node.node, p)) ELSE node
            /\ ret' = [op |-> "Write", via |-> via, place |-> p,
                       copy |-> IF throughCopy THEN WriteAt(ret.copy, p) ELSE ret.copy,
                       shared |-> ret.shared,
                       before |-> [original |-> node.node, copy |-> ret.copy]]

NextCopy ==
    \/ CopyAct
    \/ WriteAct

SpecCopy == InitCopy /\ [][NextCopy]_vars

----------------------------------------------------------------------------
(* Properties of Copy *)

\* C27: Copy is a deep copy. The Node n.Copy() returns shares nothing that
\* can be written with n: a write to a map, a slice, a byte string, a byte
\* of raw, an entry of tree or a Link reached from the copy leaves what n
\* shows (object tree, RawData, Tree, Links, Cid) as it was, and a write
\* through n leaves the copy as it was.
C27_CopyIsDeep ==
    ret.op = "Write" =>
        /\ ret.via = "copy" => node.node = ret.before.original
        /\ ret.via = "original" => ret.copy = ret.before.copy

\* the same for the places Copy makes anew: raw, tree, the array of links,
\* and the maps and slices of the object tree
CopyOwnsContainers ==
    (ret.op = "Write"
        /\ ret.place[1] # "link"
        /\ (ret.place[1] = "obj" =>
               ValueAt(ret.before.copy.obj, ret.place[2]).t \in {"map", "seq"})) =>
        /\ ret.via = "copy" => node.node = ret.before.original
        /\ ret.via = "original" => ret.copy = ret.before.copy

----------------------------------------------------------------------------
(* The registry of rules and the pools built from it                       *)
(*                                                                         *)
(* A rule (atlas.AtlasEntry) is the type it is for and its tag, if it has  *)
(* one. An atlas is the list of rules it was built from. An instance of a  *)
(* pool is the atlas it was made for. A pool is the channels its field has *)
(* held, the last being the one the field holds now; the earlier ones are  *)
(* kept because a goroutine that read the field before a SetAtlas still    *)
(* receives from or sends to the channel it read. A goroutine is out of    *)
(* any call ("out"), in the receive on channel `on` ("acquire"), in the    *)
(* operation of the instance it holds ("op") or in the send of that        *)
(* instance on channel `on` ("sending").                                   *)

\* how many calls of RegisterCborType are followed
MaxRegistrations == 2

\* the goroutines that use the pools: two, so that one can take an instance
\* from a channel while the other holds one
Users == {1, 2}

AtlasEntry(type, tagged, tag) == [Type |-> type, Tagged |-> tagged, Tag |-> tag]

cidAtlasEntry == AtlasEntry("cid.Cid", TRUE, CBORTagLink)
bigIntAtlasEntry == AtlasEntry("big.Int", FALSE, 0)

PoolNames == {"marshaller", "unmarshaller", "cloner"}

\* atlas.Build: no two rules for one type, no two rules with one tag
Build(entries) ==
    IF \E j, k \in 1..Len(entries) :
           /\ j < k
           /\ \/ entries[j].Type = entries[k].Type
              \/ entries[j].Tagged /\ entries[k].Tagged /\ entries[j].Tag = entries[k].Tag
    THEN [err |-> "repeated entry", atl |-> <<>>]
    ELSE [err |-> "", atl |-> entries]

\* what RegisterCborType is handed: a rule built by the caller, or a value
\* of a struct type or of another kind
Prebuilt(entry) == [prebuilt |-> TRUE, kind |-> "entry", entry |-> entry]
Bare(type, kind) == [prebuilt |-> FALSE, kind |-> kind, entry |-> AtlasEntry(type, FALSE, 0)]

\* the rule RegisterCborType derives from i: the rule itself, or the
\* autogenerated struct map, which panics for a value that is no struct
EntryOf(i) ==
    IF i.prebuilt \/ i.kind = "struct" THEN [panic |-> FALSE, entry |-> i.entry]
    ELSE [panic |-> TRUE, entry |-> i.entry]

\* SetAtlas on pool p: a new channel of capacity count in the field, filled
\* with new instances for atl
PoolSetAtlas(p, atl, count) == Append(p, [k \in 1..count |-> atl])

Registry(entries, atl, ps, panic) ==
    [entries |-> entries, atl |-> atl, ps |-> ps, panic |-> panic]

\* a rebuildAtlas that assigns what Build returned before it looks at the
\* error
rebuildAtlasAssigningFirst(r, count) ==
    IF Build(r.entries).err # "" THEN [r EXCEPT !.panic = TRUE, !.atl = Build(r.entries).atl]
    ELSE Registry(r.entries, Build(r.entries).atl,
                  [n \in PoolNames |-> PoolSetAtlas(r.ps[n], Build(r.entries).atl, count)],
                  FALSE)

\* rebuildAtlas: MustBuild panics before anything is assigned; otherwise
\* the atlas is assigned and the three pools get it
rebuildAtlas(r, count) ==
    IF Build(r.entries).err # "" THEN [r EXCEPT !.panic = TRUE]
    ELSE Registry(r.entries, Build(r.entries).atl,
                  [n \in PoolNames |-> PoolSetAtlas(r.ps[n], Build(r.entries).atl, count)],
                  FALSE)

\* an append that puts the rule in front of the list
appendInFront(entries, entry) == <<entry>> \o entries

\* atlasEntries = append(atlasEntries, entry)
append(entries, entry) == Append(entries, entry)

\* RegisterCborType(i) on the registry r
RegisterCborType(r, i) ==
    IF EntryOf(i).panic THEN [r EXCEPT !.panic = TRUE]
    ELSE rebuildAtlas([r EXCEPT !.entries = append(r.entries, EntryOf(i).entry)], Count)

\* what the host registers: two struct types, a value that is no struct,
\* and a rule of its own with the tag of links
Registrable ==
    {Bare("MyStruct", "struct"), Bare("Other", "struct"), Bare("int", "int"),
     Prebuilt(AtlasEntry("Tagged", TRUE, CBORTagLink))}

User(pc, pool, on, held, err) == [pc |-> pc, pool |-> pool, on |-> on, held |-> held, err |-> err]

\* no instance held
NoInstance == <<"none">>

\* the state after init(): the two rules of the package, their atlas, and
\* the pools filled for it; the goroutines of one run all use the cloner or
\* all use the unmarshaller
InitRegistry ==
    /\ CodecAtRest
    /\ StoreAtRest
    /\ ManyAtRest
    /\ idle = [pool |-> "none", chan |-> <<>>]
    /\ \E n \in {"cloner", "unmarshaller"} :
           callers = [c \in Users |-> User("out", n, 0, NoInstance, "")]
    /\ atlasEntries = <<cidAtlasEntry, bigIntAtlasEntry>>
    /\ cborAtlas = rebuildAtlas(Registry(<<cidAtlasEntry, bigIntAtlasEntry>>, <<>>,
                                         [n \in PoolNames |-> <<>>], FALSE), Count).atl
    /\ pools = rebuildAtlas(Registry(<<cidAtlasEntry, bigIntAtlasEntry>>, <<>>,
                                     [n \in PoolNames |-> <<>>], FALSE), Count).ps
    /\ reg = <<>>

beyondRegistry == <<codecVars, storeVars, manyVars, idle>>

\* after the registry r
Becomes(r) ==
    /\ atlasEntries' = r.entries
    /\ cborAtlas' = r.atl
    /\ pools' = r.ps

\* RegisterCborType(i), the whole call; a panic of it is recovered by the
\* host
RegisterAct ==
    /\ Len(reg) < MaxRegistrations
    /\ UNCHANGED beyondRegistry
    /\ UNCHANGED callers
    /\ \E i \in Registrable :
        /\ Becomes(RegisterCborType(Registry(atlasEntries, cborAtlas, pools, FALSE), i))
        /\ reg' = Append(reg, [i |-> i,
                               panic |-> RegisterCborType(Registry(atlasEntries, cborAtlas,
                                                                   pools, FALSE), i).panic])

\* a goroutine calls p.Clone or p.Unmarshal and reads the field of the pool
UserCall ==
    /\ UNCHANGED beyondRegistry
    /\ UNCHANGED registryVars
    /\ \E c \in Users :
        /\ callers[c].pc = "out"
        /\ callers' = [callers EXCEPT ![c] =
                          User("acquire", callers[c].pool, Len(pools[callers[c].pool]),
                               NoInstance, "")]

\* c := <-p.cloners
UserAcquire ==
    /\ UNCHANGED beyondRegistry
    /\ UNCHANGED <<atlasEntries, cborAtlas, reg>>
    /\ \E c \in Users :
        /\ callers[c].pc = "acquire"
        /\ pools[callers[c].pool][callers[c].on] # <<>>
        /\ pools' = [pools EXCEPT ![callers[c].pool][callers[c].on] = Tail(@)]
        /\ callers' = [callers EXCEPT ![c] =
                          User("op", callers[c].pool, callers[c].on,
                               pools[callers[c].pool][callers[c].on][1], "")]

\* err := c.Clone(a, b): the operation returns, with an error or without,
\* and the goroutine reads the field of the pool for its send; or the codec
\* panics and the goroutine leaves the call with the instance
UserOperate ==
    /\ UNCHANGED beyondRegistry
    /\ UNCHANGED registryVars
    /\ \E c \in Users, err \in {"", "refmt error", "panic"} :
        /\ callers[c].pc = "op"
        /\ callers' = [callers EXCEPT ![c] =
                          IF err = "panic"
                          THEN User("out", callers[c].pool, 0, NoInstance, "")
                          ELSE User("sending", callers[c].pool, Len(pools[callers[c].pool]),
                                    callers[c].held, err)]

\* p.cloners <- c; return err
UserSend ==
    /\ UNCHANGED beyondRegistry
    /\ UNCHANGED <<atlasEntries, cborAtlas, reg>>
    /\ \E c \in Users :
        /\ callers[c].pc = "sending"
        /\ Len(pools[callers[c].pool][callers[c].on]) < Count
        /\ pools' = [pools EXCEPT ![callers[c].pool][callers[c].on] =
                        Append(@, callers[c].held)]
        /\ callers' = [callers EXCEPT ![c] = User("out", callers[c].pool, 0, NoInstance, "")]

NextRegistry ==
    \/ RegisterAct
    \/ UserCall
    \/ UserAcquire
    \/ UserOperate
    \/ UserSend

SpecRegistry == InitRegistry /\ [][NextRegistry]_vars

----------------------------------------------------------------------------
(* Properties of the registry *)

\* the rules of the package
Base == <<cidAtlasEntry, bigIntAtlasEntry>>

\* the rules of the calls of log that did not fail, in the order of the calls
Accepted(log) ==
    [j \in 1..Len(SelectSeq(log, LAMBDA c : ~c.panic)) |->
        EntryOf(SelectSeq(log, LAMBDA c : ~c.panic)[j].i).entry]

\* the channel the field of pool n holds
Current(n) == pools[n][Len(pools[n])]

\* the step is a call of RegisterCborType
Registering == Len(reg') = Len(reg) + 1

\* while no call has failed, the list is the rules of the package and then
\* the rules registered, in order, and the atlas is built from the list;
\* before any call the pools hold instances for that atlas only
ListAndAtlas ==
    (\A k \in 1..Len(reg) : ~reg[k].panic) =>
        /\ atlasEntries = Base \o [k \in 1..Len(reg) |-> EntryOf(reg[k].i).entry]
        /\ cborAtlas = Build(atlasEntries).atl
        /\ Build(atlasEntries).err = ""
        /\ reg = <<>> =>
               \A n \in PoolNames : \A k \in 1..Len(Current(n)) : Current(n)[k] = cborAtlas

\* a step keeps the list as the beginning of the list after it, and a call
\* that does not fail leaves in the field of each of the three pools a
\* channel of Count instances for the list after it
GrowsAndFills ==
    /\ Len(atlasEntries) <= Len(atlasEntries')
    /\ SubSeq(atlasEntries', 1, Len(atlasEntries)) = atlasEntries
    /\ (Registering /\ ~reg'[Len(reg')].panic) =>
        /\ atlasEntries' = Append(atlasEntries, EntryOf(reg'[Len(reg')].i).entry)
        /\ \A n \in PoolNames :
               pools'[n][Len(pools'[n])] = [k \in 1..Count |-> atlasEntries']

FailsInRebuild ==
    /\ Registering
    /\ ~EntryOf(reg'[Len(reg')].i).panic
    /\ Build(Append(atlasEntries, EntryOf(reg'[Len(reg')].i).entry)).err # ""

\* a call that fails in the rebuild ends in a panic and leaves the atlas
\* and the pools as they were
RebuildFailureKeeps ==
    FailsInRebuild => (reg'[Len(reg')].panic /\ cborAtlas' = cborAtlas /\ pools' = pools)

\* C22: when the rebuild of the rule set fails inside a RegisterCborType
\* call, the call fails, and the active rule set and the pools every later
\* encode and decode uses are those in effect before the call.
C22_RebuildFailureKeepsAtlas == [][RebuildFailureKeeps]_vars

\* a struct type was registered and then registered again: the second call
\* failed, the atlas is that of the first, and the cloner holds Count
\* instances for it
C22_Witness ==
    /\ Len(reg) = 2
    /\ ~reg[1].panic
    /\ reg[2].panic
    /\ reg[2].i = reg[1].i
    /\ cborAtlas = Base \o <<EntryOf(reg[1].i).entry>>
    /\ Current("cloner") = [k \in 1..Count |-> cborAtlas]

\* C29: a failed registration leaves no trace. When RegisterCborType fails
\* because the rule set cannot be rebuilt, the rejected rule is not kept in
\* the global list, so a later call with a valid rule succeeds and the list
\* then holds the successfully registered rules only.
C29_FailedRegistrationLeavesNoTrace ==
    /\ atlasEntries = Base \o Accepted(reg)
    /\ \A k \in 1..Len(reg) :
           (/\ ~EntryOf(reg[k].i).panic
            /\ Build(Base \o Accepted(SubSeq(reg, 1, k - 1))
                         \o <<EntryOf(reg[k].i).entry>>).err = "") => ~reg[k].panic

\* the same for calls that fail before the rule is appended: a value that
\* is no struct leaves the list as it was
FailedDerivationLeavesNoTrace ==
    (\A k \in 1..Len(reg) : reg[k].panic => EntryOf(reg[k].i).panic) =>
        atlasEntries = Base \o Accepted(reg)

\* the goroutines that hold an instance of pool n
Holding(n) == {c \in Users : callers[c].pool = n /\ callers[c].held # NoInstance}

\* C25: rebuilding the rule set replaces all pools. In every interleaving
\* of rebuildAtlas with pooled operations, also when a caller holds an
\* instance acquired before the rebuild, every instance idle in a pool
\* after the rebuild returned was built against the new rule set: no
\* instance built for the previous rule set enters the new pool.
C25_RebuildReplacesPools ==
    \A n \in PoolNames : \A k \in 1..Len(Current(n)) : Current(n)[k] = cborAtlas

\* C28: a pooled instance is always given back. After every Decode,
\* Unmarshal or Clone call ends, with success, with an error or with a
\* panic of the codec while the instance was held, the pool holds the
\* instance again, so failing inputs cannot shrink the pool and block all
\* later callers.
C28_InstanceAlwaysReturned ==
    reg = <<>> =>
        \A n \in PoolNames : Len(Current(n)) + Cardinality(Holding(n)) = Count

\* the pool the goroutines use is empty and none of them holds an instance
PoolDrainedByPanics ==
    /\ reg = <<>>
    /\ \E n \in PoolNames : Current(n) = <<>> /\ Holding(n) = {}
    /\ \E c \in Users : callers[c].pc = "acquire"

\* the same for operations that return, with an error or without
InstanceReturnedOnReturn ==
    [][(\A c \in Users : callers[c].pc = "op" => callers'[c].pc # "out")
          => (reg' = <<>> =>
                 \A n \in PoolNames :
                     Len(pools'[n][1]) + Cardinality({c \in Users :
                         callers'[c].pool = n /\ callers'[c].held # NoInstance})
                       = Len(pools[n][1]) + Cardinality(Holding(n)))]_vars

====
